---- MODULE Spec2Model ----
(***************************************************************************)
(* A model of pybitcoin: secp256k1 point arithmetic (ecc.py), Base58Check, *)
(* private/public keys and BIP-32 extended keys (keys.py).                  *)
(*                                                                         *)
(* Representation.                                                         *)
(*  - Byte strings are sequences over 0..255.                              *)
(*  - Python integers that exceed 31 bits (the Base58 number, child        *)
(*    indexes up to 2^32-1) are canonical big-endian base-256 digit        *)
(*    sequences without leading zeros ("Big"); << >> is zero.              *)
(*  - The curve y^2 = x^3 + 7 is instantiated over a 6-bit prime field     *)
(*    with the shape of secp256k1: p = 3 (mod 4), prime group order n < p, *)
(*    cofactor 1, and no curve point with a zero coordinate.  Scalars,     *)
(*    coordinates and the left half of an HMAC output are integers of      *)
(*    that scale; byte widths (32-byte keys, 4-byte indexes) are the       *)
(*    source's.                                                            *)
(*  - A call's outcome is a record [exc, msg, val]: exc = "none" and the   *)
(*    returned value, or the class and message of the raised exception.    *)
(*  - SHA-256, RIPEMD-160 and HMAC-SHA-512 are oracles: a digest is either *)
(*    an input chosen by the environment (where its bytes matter) or a     *)
(*    term naming what was hashed.                                         *)
(***************************************************************************)
EXTENDS Integers, Sequences, FiniteSets, TLC

VARIABLES ecc, b58, pk, xk, wl, tx, ts, ch, hp, cm

vars == <<ecc, b58, pk, xk, wl, tx, ts, ch, hp, cm>>

-----------------------------------------------------------------------------
(* Outcomes *)

NoValue == [x |-> -1, y |-> -1]

Ok(v) == [exc |-> "none", msg |-> "", val |-> v]

Raise(e, m) == [exc |-> e, msg |-> m, val |-> NoValue]

Returned(r) == r.exc = "none"

-----------------------------------------------------------------------------
(* Byte strings and big integers *)

\* Loops over a byte string or over the rounds of a while loop are written
\* by halves (first half, then second half from where the first ended), so
\* that the evaluation nests logarithmically in the length.

\* sum(1 for _ in takewhile(v.__eq__, s))
LeadingCount(s, v) ==
    LET others == {i \in 1..Len(s) : s[i] # v}
    IN IF others = {} THEN Len(s)
       ELSE (CHOOSE i \in others : \A j \in others : i <= j) - 1

Reverse(s) == [i \in 1..Len(s) |-> s[Len(s) + 1 - i]]

Repeat(v, n) == [i \in 1..n |-> v]

\* s[:-4] and s[-4:]
DropLast(s, n) == SubSeq(s, 1, IF Len(s) > n THEN Len(s) - n ELSE 0)

TakeLast(s, n) == SubSeq(s, IF Len(s) > n THEN Len(s) - n + 1 ELSE 1, Len(s))

\* s[i:j], zero-based and clipped as a Python slice is
Slice(s, i, j) == SubSeq(s, i + 1, IF j > Len(s) THEN Len(s) ELSE j)

StripZeros(s) == SubSeq(s, LeadingCount(s, 0) + 1, Len(s))

\* int.from_bytes(data, 'big') as a Big
int_from_bytes(data) == StripZeros(data)

\* Big n.to_bytes(length, 'big')
Big_to_bytes(n, length) ==
    IF Len(n) > length THEN Raise("OverflowError", "int too big to convert")
    ELSE Ok(Repeat(0, length - Len(n)) \o n)

\* Long division of the digits n by d, 0 < d < 2^23, entered with remainder
\* rem: <<quotient digits, remainder>>
RECURSIVE BigDivPart(_, _, _)
BigDivPart(n, d, rem) ==
    IF Len(n) = 0 THEN << << >>, rem >>
    ELSE IF Len(n) = 1
    THEN LET cur == rem * 256 + n[1] IN << <<cur \div d>>, cur % d >>
    ELSE LET h == Len(n) \div 2
             l == BigDivPart(SubSeq(n, 1, h), d, rem)
             r == BigDivPart(SubSeq(n, h + 1, Len(n)), d, l[2])
         IN << l[1] \o r[1], r[2] >>

\* <<n // d, n % d>> for a Big n
BigDivMod(n, d) ==
    LET qr == BigDivPart(n, d, 0) IN << StripZeros(qr[1]), qr[2] >>

\* The digits n times m, 0 <= m < 2^15, entered with carry from the right:
\* <<product digits, carry out>>
RECURSIVE BigMulPart(_, _, _)
BigMulPart(n, m, carry) ==
    IF Len(n) = 0 THEN << << >>, carry >>
    ELSE IF Len(n) = 1
    THEN LET cur == n[1] * m + carry IN << <<cur % 256>>, cur \div 256 >>
    ELSE LET h == Len(n) \div 2
             r == BigMulPart(SubSeq(n, h + 1, Len(n)), m, carry)
             lo == r[1]
             l == BigMulPart(SubSeq(n, 1, h), m, r[2])
         IN IF Len(lo) >= 0 THEN << l[1] \o lo, l[2] >> ELSE << lo, 0 >>

\* a small non-negative integer as a Big, and back
RECURSIVE NatToBig(_)
NatToBig(n) == IF n = 0 THEN << >> ELSE Append(NatToBig(n \div 256), n % 256)

RECURSIVE BigToNat(_)
BigToNat(b) ==
    IF b = << >> THEN 0 ELSE BigToNat(DropLast(b, 1)) * 256 + b[Len(b)]

\* a >= b for Bigs a and b
BigGE(a, b) ==
    IF Len(a) # Len(b) THEN Len(a) > Len(b)
    ELSE LET differ == {i \in 1..Len(a) : a[i] # b[i]}
         IN \/ differ = {}
            \/ LET i == CHOOSE i \in differ : \A j \in differ : i <= j
               IN a[i] > b[i]

\* n * m + a for a Big n and 0 <= m, a < 2^15
BigMulAdd(n, m, a) ==
    LET pc == BigMulPart(n, m, a) IN StripZeros(NatToBig(pc[2]) \o pc[1])

\* n.to_bytes(length, 'big') for a small integer n
to_bytes(n, length) ==
    IF n < 0 THEN Raise("OverflowError", "can't convert negative int to unsigned")
    ELSE Big_to_bytes(NatToBig(n), length)

-----------------------------------------------------------------------------
(* keys.py: the SHA-256 oracle and Base58Check *)

\* sha256(sha256(payload))[:4] under the oracle sha, which answers digest
\* for the string sha.of and other for every other string
dsha256_4(sha, payload) ==
    IF payload = sha.of THEN sha.digest ELSE sha.other

BASE58_ALPHABET ==
    << "1", "2", "3", "4", "5", "6", "7", "8", "9",
       "A", "B", "C", "D", "E", "F", "G", "H", "J", "K", "L", "M", "N", "P",
       "Q", "R", "S", "T", "U", "V", "W", "X", "Y", "Z",
       "a", "b", "c", "d", "e", "f", "g", "h", "i", "j", "k", "m", "n", "o",
       "p", "q", "r", "s", "t", "u", "v", "w", "x", "y", "z" >>

InAlphabet(c) == \E i \in 1..Len(BASE58_ALPHABET) : BASE58_ALPHABET[i] = c

BASE58_ALPHABET_REVERSE(c) ==
    (CHOOSE i \in 1..Len(BASE58_ALPHABET) : BASE58_ALPHABET[i] = c) - 1

\* The loop is computed by halves, the first half of the rounds evaluated before
\* the second is entered, which keeps the evaluation shallow.
\* One round of: while number: result.append(ALPHABET[number % 58]);
\* number //= 58.  st is <<number, result>>; a round is void once number is 0.
B58_round(st) ==
    IF st[1] = << >> THEN st
    ELSE LET qr == BigDivMod(st[1], 58)
         IN << qr[1], Append(st[2], BASE58_ALPHABET[qr[2] + 1]) >>

RECURSIVE B58_rounds(_, _)
B58_rounds(st, k) ==
    IF k = 0 THEN st
    ELSE IF k = 1 THEN B58_round(st)
    ELSE LET half == B58_rounds(st, k \div 2)
         IN IF Len(half[2]) >= 0 THEN B58_rounds(half, k - k \div 2) ELSE half

\* A number of n bytes has at most 2n base-58 digits
B58_digits(number, result) == B58_rounds(<<number, result>>, 2 * Len(number))[2]

base58check_encode(payload, sha) ==
    LET check == dsha256_4(sha, payload)
        data == payload \o check
        leading_zeros == LeadingCount(data, 0)
        number == int_from_bytes(data)
        result == B58_digits(number, << >>) \o Repeat("1", leading_zeros)
    IN Reverse(result)

\* The sum of REVERSE[c] * 58^i over the reversed string, as number * 58 +
\* REVERSE[c] over the string
RECURSIVE B58_number(_, _)
B58_number(data, number) ==
    IF Len(data) = 0 THEN number
    ELSE IF Len(data) = 1
    THEN BigMulAdd(number, 58,
                   IF data[1] # "1" THEN BASE58_ALPHABET_REVERSE(data[1]) ELSE 0)
    ELSE LET h == Len(data) \div 2
             left == B58_number(SubSeq(data, 1, h), number)
         IN IF Len(left) >= 0
            THEN B58_number(SubSeq(data, h + 1, Len(data)), left)
            ELSE left

base58check_decode(data, sha) ==
    IF \E i \in 1..Len(data) : ~InAlphabet(data[i])
    THEN Raise("Base58DecodeError", "Given string is not Base58Check encoded!")
    ELSE LET leading_zeros == LeadingCount(data, "1")
             bytes_data == B58_number(data, << >>)
             payload == Repeat(0, leading_zeros) \o DropLast(bytes_data, 4)
             check == TakeLast(bytes_data, 4)
         IN IF dsha256_4(sha, payload) # check
            THEN Raise("Base58DecodeError", "Check does not match")
            ELSE Ok(payload)

-----------------------------------------------------------------------------
(* ecc.py: curve parameters *)

curve_b == 7

curve_p == 43

curve_g_x == 2

curve_g_y == 12

curve_n == 31

Parity_ODD == 3

Parity_EVEN == 2

-----------------------------------------------------------------------------
(* Python's three-argument pow *)

RECURSIVE ModPow(_, _, _)
ModPow(b, e, m) ==
    IF e = 0 THEN 1 % m
    ELSE IF e % 2 = 1 THEN ((b % m) * ModPow(b, e - 1, m)) % m
    ELSE LET h == ModPow(b, e \div 2, m) IN (h * h) % m

\* pow(a, -1, m) raises ValueError unless a is invertible modulo m
Invertible(a, m) == \E i \in 0..(m - 1) : (a * i) % m = 1 % m

ModInv(a, m) == CHOOSE i \in 0..(m - 1) : (a * i) % m = 1 % m

-----------------------------------------------------------------------------
(* ecc.py: legendre, tonelli_shanks *)

legendre(x, p) ==
    LET r == ModPow(x, p \div 2, p)
    IN IF r = p - 1 THEN -1 ELSE r

RECURSIVE TS_factor(_, _)
TS_factor(q, s) ==
    IF q % 2 = 0 THEN TS_factor(q \div 2, s + 1) ELSE <<q, s>>

RECURSIVE TS_find_z(_, _)
TS_find_z(z, p) ==
    IF legendre(z, p) # -1 THEN TS_find_z(z + 1, p) ELSE z

\* for i in range(1, m): t2i = t2i * t2i % p; if t2i == 1: break
\* The value of i after the loop; i keeps its previous binding (0: unbound)
\* when the range is empty.
RECURSIVE TS_least_i(_, _, _, _, _)
TS_least_i(i, t2i, m, p, prev) ==
    IF i >= m THEN prev
    ELSE LET sq == (t2i * t2i) % p
         IN IF sq = 1 THEN i ELSE TS_least_i(i + 1, sq, m, p, i)

MaxRounds == 8

RECURSIVE TS_loop(_, _, _, _, _, _, _)
TS_loop(m, c, t, r, p, prev, fuel) ==
    IF t = 1 THEN Ok(<<r, p - r>>)
    ELSE IF fuel = 0 THEN Raise("NoReturn", "loop does not terminate")
    ELSE LET i == TS_least_i(1, t, m, p, prev)
         IN IF i = 0 THEN Raise("UnboundLocalError", "i")
            ELSE IF m - i - 1 < 0 THEN Raise("ValueError", "negative shift count")
            ELSE LET b  == ModPow(c, 2 * (2 ^ (m - i - 1)), p)
                     c2 == ModPow(b, 2, p)
                 IN TS_loop(i, c2, (t * c2) % p, (r * b) % p, p, i, fuel - 1)

tonelli_shanks(n, p) ==
    IF legendre(n, p) # 1
    THEN Raise("ValueError", "not a square root")
    ELSE LET qs == TS_factor(p - 1, 0)
             q  == qs[1]
             s  == qs[2]
             z  == TS_find_z(1, p)
         IN TS_loop(s, ModPow(z, q, p), ModPow(n, q, p),
                    ModPow(n, (q + 1) \div 2, p), p, 0, MaxRounds)

-----------------------------------------------------------------------------
(* ecc.py: Point *)

Pt(x, y) == [x |-> x, y |-> y]

Point_init(x, y) ==
    IF x < 0 \/ y < 0
    THEN Raise("ValueError", "Both coordinates have to be >= 0")
    ELSE IF x >= curve_p \/ y >= curve_p
    THEN Raise("ValueError", "Both coordinates have to <")
    ELSE IF x # 0 /\ y # 0
            /\ (ModPow(y, 2, curve_p) - ModPow(x, 3, curve_p) - curve_b) % curve_p # 0
    THEN Raise("ValueError", "Point not on curve!")
    ELSE Ok(Pt(x, y))

\* from_x choosing the odd root whatever the parity asked for
Point_from_x_any_parity(x, parity) ==
    LET ys == tonelli_shanks(ModPow(x, 3, curve_p) + curve_b, curve_p)
    IN IF ~Returned(ys) THEN ys
       ELSE LET y1 == ys.val[1]
                y2 == ys.val[2]
            IN Point_init(x, IF y1 % 2 = 1 THEN y1 ELSE y2)

Point_from_x(x, parity) ==
    LET ys == tonelli_shanks(ModPow(x, 3, curve_p) + curve_b, curve_p)
    IN IF ~Returned(ys) THEN ys
       ELSE LET y1 == ys.val[1]
                y2 == ys.val[2]
                y  == IF parity = Parity_ODD
                      THEN (IF y1 % 2 = 1 THEN y1 ELSE y2)
                      ELSE (IF y1 % 2 = 1 THEN y2 ELSE y1)
            IN Point_init(x, y)

Point_inf == Pt(0, 0)

Point_gen == Pt(curve_g_x, curve_g_y)

Point_eq(self, other) == self.x = other.x /\ self.y = other.y

Point_add(self, other) ==
    IF self.x = 0 /\ self.y = 0 THEN Ok(other)
    ELSE IF other.x = 0 /\ other.y = 0 THEN Ok(self)
    ELSE IF self.x = other.x /\ self.y = -other.y THEN Point_init(0, 0)
    ELSE LET dbl == Point_eq(self, other)
             den == IF dbl THEN 2 * self.y ELSE self.x - other.x
         IN IF ~Invertible(den, curve_p)
            THEN Raise("ValueError", "base is not invertible for the given modulus")
            ELSE LET s == IF dbl
                          THEN 3 * ModPow(self.x, 2, curve_p) * ModInv(den, curve_p)
                          ELSE (self.y - other.y) * ModInv(den, curve_p)
                     new_x == (ModPow(s, 2, curve_p) - self.x - other.x) % curve_p
                     new_y == (s * (self.x - new_x) - self.y) % curve_p
                 IN Point_init(new_x, new_y)

Point_neg(self) == Point_init(self.x, (-self.y) % curve_p)

\* while other: if other % 2: q += n; n += n; other //= 2
\* The loop is entered at Mul_loop; Mul_doubled has the outcome q1 of q += n
\* and Mul_halved the outcome n1 of n += n.
RECURSIVE Mul_loop(_, _, _)
RECURSIVE Mul_doubled(_, _, _)
RECURSIVE Mul_halved(_, _, _)
Mul_loop(q, n, other) ==
    IF other = 0 THEN Ok(q)
    ELSE Mul_doubled(IF other % 2 = 1 THEN Point_add(q, n) ELSE Ok(q), n, other)

Mul_doubled(q1, n, other) ==
    IF ~Returned(q1) THEN q1 ELSE Mul_halved(q1.val, Point_add(n, n), other)

Mul_halved(q, n1, other) ==
    IF ~Returned(n1) THEN n1 ELSE Mul_loop(q, n1.val, other \div 2)

\* -r for the outcome r of a call
Neg_outcome(r) == IF Returned(r) THEN Point_neg(r.val) ELSE r

RECURSIVE Point_mul(_, _)
Point_mul(self, other) ==
    IF other = 1 THEN Ok(self)
    ELSE IF other < 0 THEN Neg_outcome(Point_mul(self, -other))
    ELSE Mul_loop(Point_inf, self, other)

Point_rmul(self, other) == Point_mul(self, other)

-----------------------------------------------------------------------------
(* Calls on ecc.py.  ecc records the last call: its operands (a, b points, *)
(* k, j integers), its outcome ret and, where a test compares two          *)
(* expressions, the second outcome ret2.  A call is made from the idle     *)
(* state and its record is final.                                          *)

MaxScalar == 3

Coords == 0..(curve_p - 1)

\* the Point objects the constructor returns
Points == {pt \in [x : Coords, y : Coords] : Returned(Point_init(pt.x, pt.y))}

Scalars == (-MaxScalar)..MaxScalar

EccCall(op, a, b, k, j, ret, ret2) ==
    [op |-> op, a |-> a, b |-> b, k |-> k, j |-> j, ret |-> ret, ret2 |-> ret2]

NoCall == Raise("no call", "")

EccOff == EccCall("off", Point_inf, Point_inf, 0, 0, NoCall, NoCall)

B58Off == [pc |-> "off"]

KeyOff == [pc |-> "off"]

XKeyOff == [pc |-> "off"]

WalletOff == [pc |-> "off"]

TxOff == [pc |-> "off"]

TsOff == [pc |-> "off"]

ChainOff == [pc |-> "off"]

HeapOff == [pc |-> "off"]

CommuteOff == [pc |-> "off"]

InitEcc ==
    /\ ecc = EccCall("init", Point_inf, Point_inf, 0, 0, NoCall, NoCall)
    /\ b58 = B58Off
    /\ pk = KeyOff
    /\ xk = XKeyOff
    /\ wl = WalletOff
    /\ tx = TxOff
    /\ ts = TsOff
    /\ ch = ChainOff
    /\ hp = HeapOff
    /\ cm = CommuteOff

EccIdle == ecc.op = "init" /\ UNCHANGED <<b58, pk, xk, wl, tx, ts, ch, hp, cm>>

\* Point(x, y)
EccNew ==
    /\ EccIdle
    /\ \E x \in (-1)..curve_p, y \in (-1)..curve_p :
        ecc' = EccCall("new", Pt(x, y), Point_inf, 0, 0, Point_init(x, y), NoCall)

\* a + b
EccAdd ==
    /\ EccIdle
    /\ \E a \in Points, b \in Points :
        ecc' = EccCall("add", a, b, 0, 0, Point_add(a, b), NoCall)

\* -a
EccNeg ==
    /\ EccIdle
    /\ \E a \in Points :
        ecc' = EccCall("neg", a, Point_inf, 0, 0, Point_neg(a), NoCall)

\* a * k and k * a
EccMul ==
    /\ EccIdle
    /\ \E a \in Points, k \in Scalars :
        ecc' = EccCall("mul", a, Point_inf, k, 0, Point_mul(a, k), Point_rmul(a, k))

\* (k + j) * a  and  k * a + j * a
EccMulSum ==
    /\ EccIdle
    /\ \E a \in Points, k \in Scalars, j \in Scalars :
        LET ka == Point_mul(a, k)
            ja == Point_mul(a, j)
            sum == IF ~Returned(ka) THEN ka
                   ELSE IF ~Returned(ja) THEN ja
                   ELSE Point_add(ka.val, ja.val)
        IN ecc' = EccCall("mul_sum", a, Point_inf, k, j, Point_mul(a, k + j), sum)

\* Point.from_x(k, j); ret2 is the pair of roots tonelli_shanks returned
EccFromX ==
    /\ EccIdle
    /\ \E x \in Coords, parity \in {Parity_ODD, Parity_EVEN} :
        ecc' = EccCall("from_x", Point_inf, Point_inf, x, parity,
                       Point_from_x(x, parity),
                       tonelli_shanks(ModPow(x, 3, curve_p) + curve_b, curve_p))

NextEcc == EccNew \/ EccAdd \/ EccNeg \/ EccMul \/ EccMulSum \/ EccFromX

SpecEcc == InitEcc /\ [][NextEcc]_vars

-----------------------------------------------------------------------------
(* The curve equation, stated apart from the code *)

InRange(pt) == pt.x \in Coords /\ pt.y \in Coords

OnCurve(pt) ==
    InRange(pt) /\ (pt.y * pt.y - pt.x * pt.x * pt.x - 7) % curve_p = 0

IsIdentity(pt) == pt = [x |-> 0, y |-> 0]

-----------------------------------------------------------------------------
(* Claims about ecc.py, checked under SpecEcc *)

Negatives(a, b) == a.x = b.x /\ (a.y + b.y) % curve_p = 0

\* C2: adding a curve point and its negative, in either order, returns the
\* identity (0, 0) and does not raise.
C2_AddNegativeIsIdentity ==
    (ecc.op = "add" /\ OnCurve(ecc.a) /\ OnCurve(ecc.b) /\ Negatives(ecc.a, ecc.b))
        => (Returned(ecc.ret) /\ IsIdentity(ecc.ret.val))

\* C3: a Point the constructor returns is in range and is the identity or on
\* the curve; in-range coordinates other than (0, 0) that are not on the
\* curve are rejected with ValueError, also when one coordinate is zero.
C3_ConstructorKeepsCurve ==
    ecc.op = "new" =>
        /\ Returned(ecc.ret) =>
              /\ InRange(ecc.ret.val)
              /\ (IsIdentity(ecc.ret.val) \/ OnCurve(ecc.ret.val))
        /\ (InRange(ecc.a) /\ ~IsIdentity(ecc.a) /\ ~OnCurve(ecc.a)) =>
              (ecc.ret.exc = "ValueError" /\ ecc.ret.msg = "Point not on curve!")

\* a added to itself k times, k >= 0
RECURSIVE RepeatedAdd(_, _)
RepeatedAdd(a, k) ==
    IF k = 0 THEN Ok(Point_inf)
    ELSE LET r == RepeatedAdd(a, k - 1)
         IN IF Returned(r) THEN Point_add(r.val, a) ELSE r

\* C6: for a curve point P and small a, b: (a+b)P = aP + bP, 0P is the
\* identity, 1P = P, 2P = P + P, (-k)P = -(kP), P*k = k*P, and kP is P added
\* k times.
C6_ScalarMulLaws ==
    /\ (ecc.op = "mul_sum" /\ OnCurve(ecc.a)) =>
          (Returned(ecc.ret) /\ Returned(ecc.ret2) /\ ecc.ret.val = ecc.ret2.val)
    /\ (ecc.op = "mul" /\ OnCurve(ecc.a)) =>
          /\ Returned(ecc.ret)
          /\ ecc.ret2 = ecc.ret
          /\ ecc.k = 0 => IsIdentity(ecc.ret.val)
          /\ ecc.k = 1 => ecc.ret.val = ecc.a
          /\ ecc.k = 2 => ecc.ret = Point_add(ecc.a, ecc.a)
          /\ ecc.k >= 0 => ecc.ret = RepeatedAdd(ecc.a, ecc.k)
          /\ ecc.k < 0 =>
                LET pos == RepeatedAdd(ecc.a, -ecc.k)
                IN Returned(pos) /\ Negatives(ecc.ret.val, pos.val)

IsOdd(y) == y % 2 = 1

\* C7: for a curve point (x, y), from_x(x, parity) returns (x, y) when
\* parity is that of y and (x, p - y) otherwise; the two roots found differ
\* in parity.
C7_FromXParity ==
    ecc.op = "from_x" =>
        \A y \in Coords :
            OnCurve(Pt(ecc.k, y)) =>
                /\ Returned(ecc.ret)
                /\ ecc.ret.val.x = ecc.k
                /\ ecc.ret.val.y = IF IsOdd(y) <=> (ecc.j = Parity_ODD)
                                   THEN y ELSE curve_p - y
                /\ Returned(ecc.ret2)
                /\ IsOdd(ecc.ret2.val[1]) # IsOdd(ecc.ret2.val[2])

\* from_x was asked for the root that is not the generator's y
C7_Witness ==
    /\ ecc.op = "from_x"
    /\ ecc.k = curve_g_x
    /\ ecc.j = (IF IsOdd(curve_g_y) THEN Parity_EVEN ELSE Parity_ODD)
    /\ Returned(ecc.ret)
    /\ ecc.ret.val = Pt(curve_g_x, curve_p - curve_g_y)

-----------------------------------------------------------------------------
(* Base58Check round trips.  b58 holds the payload, the oracle, the        *)
(* encoded string and the outcome of decoding it.                          *)

MaxPayloadLen == 2

PayloadBytes == {0, 1, 255}

CheckBytes == {0, 255}

Payloads == UNION {[1..n -> PayloadBytes] : n \in 0..MaxPayloadLen}

Checks == [1..4 -> CheckBytes]

InitB58 ==
    /\ ecc = EccOff
    /\ pk = KeyOff
    /\ xk = XKeyOff
    /\ wl = WalletOff
    /\ tx = TxOff
    /\ ts = TsOff
    /\ ch = ChainOff
    /\ hp = HeapOff
    /\ cm = CommuteOff
    /\ \E payload \in Payloads, digest \in Checks, other \in Checks :
          b58 = [pc |-> "start", payload |-> payload,
                 sha |-> [of |-> payload, digest |-> digest, other |-> other],
                 str |-> << >>, ret |-> NoCall]

B58Encode ==
    /\ b58.pc = "start"
    /\ UNCHANGED <<ecc, pk, xk, wl, tx, ts, ch, hp, cm>>
    /\ b58' = [b58 EXCEPT !.pc = "encoded",
                          !.str = base58check_encode(b58.payload, b58.sha)]

B58Decode ==
    /\ b58.pc = "encoded"
    /\ UNCHANGED <<ecc, pk, xk, wl, tx, ts, ch, hp, cm>>
    /\ b58' = [b58 EXCEPT !.pc = "decoded",
                          !.ret = base58check_decode(b58.str, b58.sha)]

NextB58 == B58Encode \/ B58Decode

SpecB58 == InitB58 /\ [][NextB58]_vars

\* C1: decoding the encoding of any payload returns the payload and raises
\* nothing, whatever the four checksum bytes are.
C1_Base58RoundTrip ==
    b58.pc = "decoded" => (Returned(b58.ret) /\ b58.ret.val = b58.payload)

-----------------------------------------------------------------------------
(* keys.py: PrivateKey, PublicKey *)

\* The optional argument k: omitted (None) or given
NoneK == [given |-> FALSE, k |-> 0]

SomeK(k) == [given |-> TRUE, k |-> k]

PrivateKey(k, testnet, compressed) ==
    [cls |-> "PrivateKey", k |-> k, testnet |-> testnet, compressed |-> compressed]

PublicKey(point, testnet) ==
    [cls |-> "PublicKey", point |-> point, testnet |-> testnet]

\* PrivateKey.__init__; randbelow is what secrets.randbelow(n) returns
PrivateKey_init(kopt, randbelow, testnet, compressed) ==
    IF kopt.given /\ ~(0 < kopt.k /\ kopt.k < curve_n)
    THEN Raise("InvalidKeyError", "k must be >0 and <n")
    ELSE Ok(PrivateKey(IF kopt.given THEN kopt.k ELSE randbelow, testnet, compressed))

PrivateKey_eq(self, other) ==
    self.k = other.k /\ self.compressed = other.compressed /\ self.testnet = other.testnet

\* PublicKey(point=..., testnet=...) of the outcome of a point computation
PublicKey_of(point, testnet) ==
    IF Returned(point) THEN Ok(PublicKey(point.val, testnet)) ELSE point

PrivateKey_generate_public_key(self) ==
    PublicKey_of(Point_rmul(Point_gen, self.k), self.testnet)

PrivateKey_encode(self, prefix, suffix) ==
    LET kb == to_bytes(self.k, 32)
    IN IF Returned(kb) THEN Ok(prefix \o kb.val \o suffix) ELSE kb

PrivateKey_to_wif(self, sha) ==
    LET payload == PrivateKey_encode(self,
                                     IF self.testnet THEN <<239>> ELSE <<128>>,
                                     IF self.compressed THEN <<1>> ELSE << >>)
    IN IF Returned(payload) THEN Ok(base58check_encode(payload.val, sha)) ELSE payload

\* from_wif reading the suffix one byte early
PrivateKey_from_wif_suffix32(data, sha) ==
    LET payload == base58check_decode(data, sha)
    IN IF ~Returned(payload) THEN payload
       ELSE LET key == int_from_bytes(Slice(payload.val, 1, 33))
            IN IF Len(key) > 3 THEN Raise("InvalidKeyError", "k must be >0 and <n")
               ELSE PrivateKey_init(SomeK(BigToNat(key)), 0,
                                    Slice(payload.val, 0, 1) = <<239>>,
                                    Slice(payload.val, 32, 33) = <<1>>)

\* A key of more than three significant bytes is at least 2^24 > n
PrivateKey_from_wif(data, sha) ==
    LET payload == base58check_decode(data, sha)
    IN IF ~Returned(payload) THEN payload
       ELSE LET prefix == Slice(payload.val, 0, 1)
                key == int_from_bytes(Slice(payload.val, 1, 33))
                suffix == Slice(payload.val, 33, 34)
            IN IF Len(key) > 3 THEN Raise("InvalidKeyError", "k must be >0 and <n")
               ELSE PrivateKey_init(SomeK(BigToNat(key)), 0,
                                    prefix = <<239>>, suffix = <<1>>)

PublicKey_encode(self, compressed) ==
    LET xb == to_bytes(self.point.x, 32)
        yb == to_bytes(self.point.y, 32)
    IN IF compressed
       THEN (IF self.point.y % 2 = 0 THEN <<2>> ELSE <<3>>) \o xb.val
       ELSE <<4>> \o xb.val \o yb.val

\* ripemd160(sha256(data)) as a term, and the first n bytes of a digest
hash160(data) == [fn |-> "hash160", of |-> data, first |-> 20]

First(digest, n) == [digest EXCEPT !.first = n]

ConstBytes(bs) == [fn |-> "bytes", of |-> bs, first |-> Len(bs)]

PublicKey_get_identifier(self) == hash160(PublicKey_encode(self, TRUE))

-----------------------------------------------------------------------------
(* A private pk's life: construction, then to_wif, then from_wif of the   *)
(* string.  pk holds the constructor's arguments and outcome (new), the   *)
(* SHA-256 oracle, the WIF string and the outcome of from_wif (ret).       *)

KeyArgs ==
    {SomeK(k) : k \in (-1)..(curve_n + 1)} \cup {NoneK}

InitKey ==
    /\ ecc = EccOff
    /\ b58 = B58Off
    /\ xk = XKeyOff
    /\ wl = WalletOff
    /\ tx = TxOff
    /\ ts = TsOff
    /\ ch = ChainOff
    /\ hp = HeapOff
    /\ cm = CommuteOff
    /\ pk = [pc |-> "start", kopt |-> NoneK, randbelow |-> 0, new |-> NoCall,
              sha |-> [of |-> << >>, digest |-> << >>, other |-> << >>],
              wif |-> NoCall, ret |-> NoCall]

\* PrivateKey(k, testnet, compressed) and PrivateKey(testnet=, compressed=)
KeyNew ==
    /\ pk.pc = "start"
    /\ UNCHANGED <<ecc, b58, xk, wl, tx, ts, ch, hp, cm>>
    /\ \E kopt \in KeyArgs, testnet \in BOOLEAN, compressed \in BOOLEAN :
       \E randbelow \in (IF kopt.given THEN {0} ELSE 0..(curve_n - 1)) :
          pk' = [pk EXCEPT !.pc = "new", !.kopt = kopt, !.randbelow = randbelow,
                             !.new = PrivateKey_init(kopt, randbelow, testnet, compressed)]

\* p.to_wif(), under an oracle chosen by the environment
KeyToWif ==
    /\ pk.pc = "new"
    /\ Returned(pk.new)
    /\ UNCHANGED <<ecc, b58, xk, wl, tx, ts, ch, hp, cm>>
    /\ \E digest \in Checks, other \in {<<0, 0, 0, 0>>} :
          LET payload == PrivateKey_encode(pk.new.val,
                                           IF pk.new.val.testnet THEN <<239>> ELSE <<128>>,
                                           IF pk.new.val.compressed THEN <<1>> ELSE << >>)
              sha == [of |-> payload.val, digest |-> digest, other |-> other]
          IN pk' = [pk EXCEPT !.pc = "wif", !.sha = sha,
                                !.wif = PrivateKey_to_wif(pk.new.val, sha)]

\* PrivateKey.from_wif(p.to_wif())
KeyFromWif ==
    /\ pk.pc = "wif"
    /\ Returned(pk.wif)
    /\ UNCHANGED <<ecc, b58, xk, wl, tx, ts, ch, hp, cm>>
    /\ pk' = [pk EXCEPT !.pc = "done",
                          !.ret = PrivateKey_from_wif(pk.wif.val, pk.sha)]

NextKey == KeyNew \/ KeyToWif \/ KeyFromWif

SpecKey == InitKey /\ [][NextKey]_vars

ValidK(k) == 1 <= k /\ k < curve_n

\* C4: a PrivateKey that construction returns has 1 <= k < n, with k given
\* and with k omitted; a given k <= 0 or k >= n raises InvalidKeyError.
C4_PrivateKeyInRange ==
    pk.pc # "start" =>
        /\ Returned(pk.new) => ValidK(pk.new.val.k)
        /\ (pk.kopt.given /\ ~ValidK(pk.kopt.k)) => pk.new.exc = "InvalidKeyError"

\* C5: for a key with 1 <= k < n, from_wif(to_wif(p)) returns a key equal to
\* p in k, testnet and compressed.
C5_WifRoundTrip ==
    (pk.pc = "done" /\ ValidK(pk.new.val.k)) =>
        /\ Returned(pk.ret)
        /\ pk.ret.val.k = pk.new.val.k
        /\ pk.ret.val.testnet = pk.new.val.testnet
        /\ pk.ret.val.compressed = pk.new.val.compressed

\* a compressed testnet key came back from a WIF string whose checksum
\* begins with a zero byte
C5_Witness ==
    /\ pk.pc = "done"
    /\ ValidK(pk.new.val.k)
    /\ pk.new.val.compressed /\ pk.new.val.testnet
    /\ pk.sha.digest[1] = 0
    /\ Len(pk.wif.val) > 40
    /\ Returned(pk.ret) /\ PrivateKey_eq(pk.ret.val, pk.new.val)

-----------------------------------------------------------------------------
(* keys.py: BIP-32 extended keys.  An index is a Big; the 64 bytes of      *)
(* hmac_sha512(chain_code, data) are given as out_l, the integer of the    *)
(* left 32 bytes, and out_r, the right 32 bytes.                           *)

\* 2 ** 31
HARDENED_CHILD_INDEX == <<128, 0, 0, 0>>

ExtendedKey(cls, key, chain_code, depth, parent_fingerprint, index) ==
    [cls |-> cls, key |-> key, chain_code |-> chain_code, depth |-> depth,
     parent_fingerprint |-> parent_fingerprint, index |-> index]

\* ExtendedKey.__init__ under ExtendedPrivateKey._validate_key
ExtendedPrivateKey_init(key, chain_code, depth, parent_fingerprint, index) ==
    IF key.cls # "PrivateKey"
    THEN Raise("ValueError", "Private key must be supplied!")
    ELSE Ok(ExtendedKey("ExtendedPrivateKey", key, chain_code, depth,
                        parent_fingerprint, index))

\* ExtendedKey.__init__ under ExtendedPublicKey._validate_key
ExtendedPublicKey_init(key, chain_code, depth, parent_fingerprint, index) ==
    IF key.cls # "PublicKey"
    THEN Raise("ValueError", "Public key must be supplied!")
    ELSE Ok(ExtendedKey("ExtendedPublicKey", key, chain_code, depth,
                        parent_fingerprint, index))

\* the message with the hardened branch taken for index > 2^31 only
derive_private_child_data_above(self, index, public_key) ==
    LET data == IF BigGE(index, HARDENED_CHILD_INDEX)
                   /\ index # HARDENED_CHILD_INDEX
                THEN PrivateKey_encode(self.key, <<0>>, << >>)
                ELSE Ok(PublicKey_encode(public_key, TRUE))
        child_number == Big_to_bytes(index, 4)
    IN IF ~Returned(data) THEN data
       ELSE IF ~Returned(child_number) THEN child_number
       ELSE Ok(data.val \o child_number.val)

\* derive_private_child from the public key to the HMAC call: the message
derive_private_child_data(self, index, public_key) ==
    LET data == IF BigGE(index, HARDENED_CHILD_INDEX)
                THEN PrivateKey_encode(self.key, <<0>>, << >>)
                ELSE Ok(PublicKey_encode(public_key, TRUE))
        child_number == Big_to_bytes(index, 4)
    IN IF ~Returned(data) THEN data
       ELSE IF ~Returned(child_number) THEN child_number
       ELSE Ok(data.val \o child_number.val)

\* derive_private_child from the HMAC output on, without the test of k == 0
derive_private_child_unchecked(self, index, out_l, out_r, public_key) ==
    IF out_l >= curve_n THEN Raise("UseNextIndex", "")
    ELSE LET k == (out_l + self.key.k) % curve_n
             key == PrivateKey_init(SomeK(k), 0, self.key.testnet, TRUE)
         IN IF ~Returned(key) THEN key
            ELSE ExtendedPrivateKey_init(
                     key.val, out_r, self.depth + 1,
                     First(PublicKey_get_identifier(public_key), 4), index)

\* derive_private_child from the HMAC output on
derive_private_child_key(self, index, out_l, out_r, public_key) ==
    IF out_l >= curve_n THEN Raise("UseNextIndex", "")
    ELSE LET k == (out_l + self.key.k) % curve_n
             key == PrivateKey_init(SomeK(k), 0, self.key.testnet, TRUE)
         IN IF k = 0 THEN Raise("UseNextIndex", "")
            ELSE IF ~Returned(key) THEN key
            ELSE ExtendedPrivateKey_init(
                     key.val, out_r, self.depth + 1,
                     First(PublicKey_get_identifier(public_key), 4), index)

\* derive_private_child once public_key = self.key.generate_public_key() has
\* its outcome
derive_private_child_with(self, index, out_l, out_r, public_key) ==
    IF ~Returned(public_key) THEN public_key
    ELSE LET data == derive_private_child_data(self, index, public_key.val)
         IN IF ~Returned(data) THEN data
            ELSE derive_private_child_key(self, index, out_l, out_r,
                                          public_key.val)

derive_private_child(self, index, out_l, out_r) ==
    derive_private_child_with(self, index, out_l, out_r,
                              PrivateKey_generate_public_key(self.key))

\* the argument msg of the call of hmac_sha512 in derive_private_child, if
\* the call is reached
Message_with(self, index, public_key) ==
    IF ~Returned(public_key) THEN public_key
    ELSE derive_private_child_data(self, index, public_key.val)

derive_private_child_msg(self, index) ==
    Message_with(self, index, PrivateKey_generate_public_key(self.key))

\* ExtendedPublicKey(key=..., ...) of the outcome key with the fields of self
ExtendedPublicKey_of(key, self) ==
    IF ~Returned(key) THEN key
    ELSE ExtendedPublicKey_init(key.val, self.chain_code, self.depth,
                                self.parent_fingerprint, self.index)

ExtendedPrivateKey_generate_public_key(self) ==
    ExtendedPublicKey_of(PrivateKey_generate_public_key(self.key), self)

\* derive_public_child up to the HMAC call: the message data
derive_public_child_data(self, index) ==
    IF BigGE(index, HARDENED_CHILD_INDEX)
    THEN Raise("ValueError", "Cannot derive hardened public keys!")
    ELSE LET child_number == Big_to_bytes(index, 4)
         IN IF ~Returned(child_number) THEN child_number
            ELSE Ok(PublicKey_encode(self.key, TRUE) \o child_number.val)

\* derive_public_child once PrivateKey(k=out_l).generate_public_key() has
\* its outcome public
derive_public_child_point(self, index, out_r, public) ==
    LET child_key_point == Point_add(public.val.point, self.key.point)
    IN IF ~Returned(public) THEN public
       ELSE IF ~Returned(child_key_point) THEN child_key_point
       ELSE IF Point_eq(child_key_point.val, Point_inf)
       THEN Raise("UseNextIndex", "")
       ELSE ExtendedPublicKey_init(
                PublicKey(child_key_point.val, self.key.testnet),
                out_r, self.depth + 1,
                First(PublicKey_get_identifier(self.key), 4), index)

derive_public_child(self, index, out_l, out_r) ==
    LET data == derive_public_child_data(self, index)
        private == PrivateKey_init(SomeK(out_l), 0, FALSE, FALSE)
    IN IF ~Returned(data) THEN data
       ELSE IF out_l >= curve_n THEN Raise("UseNextIndex", "")
       ELSE IF ~Returned(private) THEN private
       ELSE derive_public_child_point(
                self, index, out_r, PrivateKey_generate_public_key(private.val))

-----------------------------------------------------------------------------
(* An extended private key is constructed; a child is derived from it, or *)
(* its extended public key is generated and a child derived from that.     *)
(* xk holds the parent (parent0 as constructed), the public parent, the    *)
(* index, the HMAC output, the HMAC message and the outcome of the call.   *)

MaxDepth == 1

OutLMax == 33

\* 0, 2^31 - 1, 2^31, 2^32 - 1 and 2^32
Indexes ==
    { << >>, <<127, 255, 255, 255>>, <<128, 0, 0, 0>>, <<255, 255, 255, 255>>,
      <<1, 0, 0, 0, 0>> }

ChainCodes == { Repeat(1, 32), Repeat(2, 32) }

ParentChainCode == Repeat(3, 32)

\* what a caller may pass as key: a PrivateKey as its constructor leaves it,
\* or a PublicKey
XKeys ==
    { PrivateKey(k, testnet, FALSE) : k \in 0..(curve_n - 1), testnet \in BOOLEAN }
    \cup { PublicKey(Point_gen, testnet) : testnet \in BOOLEAN }

InitXKey ==
    /\ ecc = EccOff
    /\ b58 = B58Off
    /\ pk = KeyOff
    /\ wl = WalletOff
    /\ tx = TxOff
    /\ ts = TsOff
    /\ ch = ChainOff
    /\ hp = HeapOff
    /\ cm = CommuteOff
    /\ xk = [pc |-> "start", parent0 |-> NoCall, parent |-> NoCall,
             pub |-> NoCall, index |-> << >>, out_l |-> 0, out_r |-> << >>,
             data |-> NoCall, ret |-> NoCall]

\* ExtendedPrivateKey(key, chain_code) for a master key, and with depth,
\* parent_fingerprint and index for a key further down
XNew ==
    /\ xk.pc = "start"
    /\ UNCHANGED <<ecc, b58, pk, wl, tx, ts, ch, hp, cm>>
    /\ \E key \in XKeys, depth \in 0..MaxDepth :
          LET new == ExtendedPrivateKey_init(
                         key, ParentChainCode, depth,
                         IF depth = 0 THEN ConstBytes(<<0, 0, 0, 0>>)
                         ELSE ConstBytes(<<222, 173, 190, 239>>),
                         IF depth = 0 THEN << >> ELSE <<7>>)
          IN xk' = [xk EXCEPT !.pc = "new", !.parent0 = new, !.parent = new]

\* parent.derive_private_child(index); the method assigns nothing to self
XDerivePrivate ==
    /\ xk.pc = "new"
    /\ Returned(xk.parent)
    /\ UNCHANGED <<ecc, b58, pk, wl, tx, ts, ch, hp, cm>>
    /\ \E index \in Indexes :
          LET data == derive_private_child_msg(xk.parent.val, index)
          IN \E out_l \in 0..OutLMax, out_r \in ChainCodes :
                xk' = [xk EXCEPT !.pc = "derived", !.index = index,
                                 !.out_l = out_l, !.out_r = out_r,
                                 !.data = data,
                                 !.ret = derive_private_child(xk.parent.val, index,
                                                              out_l, out_r)]

\* parent.generate_public_key()
XGeneratePublicKey ==
    /\ xk.pc = "new"
    /\ Returned(xk.parent)
    /\ UNCHANGED <<ecc, b58, pk, wl, tx, ts, ch, hp, cm>>
    /\ xk' = [xk EXCEPT !.pc = "pub",
                        !.pub = ExtendedPrivateKey_generate_public_key(xk.parent.val)]

\* pub.derive_public_child(index)
XDerivePublic ==
    /\ xk.pc = "pub"
    /\ Returned(xk.pub)
    /\ UNCHANGED <<ecc, b58, pk, wl, tx, ts, ch, hp, cm>>
    /\ \E index \in Indexes :
          LET data == derive_public_child_data(xk.pub.val, index)
          IN \E out_l \in 0..OutLMax, out_r \in ChainCodes :
                xk' = [xk EXCEPT !.pc = "pubderived", !.index = index,
                                 !.out_l = out_l, !.out_r = out_r,
                                 !.data = data,
                                 !.ret = derive_public_child(xk.pub.val, index,
                                                             out_l, out_r)]

NextXKey == XNew \/ XDerivePrivate \/ XGeneratePublicKey \/ XDerivePublic

SpecXKey == InitXKey /\ [][NextXKey]_vars

\* 0 <= i < 2^32, i >= 2^31, and i as four bytes
IndexInRange(i) == Len(i) <= 4

Hardened(i) == Len(i) = 4 /\ i[1] >= 128

Index4(i) == Repeat(0, 4 - Len(i)) \o i

\* k < 256 as 32 bytes, and the compressed encoding of the point k.G
Key32(k) == Repeat(0, 31) \o <<k>>

CompressedPub(k) ==
    LET point == RepeatedAdd(Point_gen, k).val
    IN <<IF point.y % 2 = 0 THEN 2 ELSE 3>> \o Key32(point.x)

Fingerprint(k) == [fn |-> "hash160", of |-> CompressedPub(k), first |-> 4]

\* C8: when derive_private_child(i) returns, the HMAC message was
\* 00 || k(32) || i(4) if i >= 2^31 and compressed_pub || i(4) if i < 2^31,
\* and the child has k = (I_L + parent.k) mod n, chain code I_R, depth + 1,
\* the fingerprint of the parent's public key, index i and the parent's
\* testnet flag.
C8_PrivateChild ==
    (xk.pc = "derived" /\ IndexInRange(xk.index) /\ Returned(xk.ret)) =>
        LET parent == xk.parent.val
            child == xk.ret.val
        IN /\ Returned(xk.data)
           /\ xk.data.val =
                 (IF Hardened(xk.index) THEN <<0>> \o Key32(parent.key.k)
                  ELSE CompressedPub(parent.key.k)) \o Index4(xk.index)
           /\ child.key.k = (xk.out_l + parent.key.k) % curve_n
           /\ child.chain_code = xk.out_r
           /\ child.depth = parent.depth + 1
           /\ child.parent_fingerprint = Fingerprint(parent.key.k)
           /\ child.index = xk.index
           /\ child.key.testnet = parent.key.testnet

\* a testnet key of depth 1 returned its child number 2^31
C8_Witness ==
    /\ xk.pc = "derived"
    /\ Returned(xk.ret)
    /\ xk.index = HARDENED_CHILD_INDEX
    /\ xk.parent.val.key.testnet /\ xk.parent.val.depth = 1
    /\ xk.ret.val.depth = 2 /\ xk.ret.val.key.k = 1

SkipPrivate ==
    \/ xk.out_l >= curve_n
    \/ (xk.out_l + xk.parent.val.key.k) % curve_n = 0

\* C9: for 0 <= i < 2^32, derive_private_child(i) raises UseNextIndex
\* exactly when I_L >= n or (I_L + parent.k) mod n = 0, otherwise returns a
\* child with 1 <= k < n, raises nothing else, and leaves the parent as it
\* was.
C9_PrivateChildSkips ==
    (xk.pc = "derived" /\ IndexInRange(xk.index)) =>
        /\ (xk.ret.exc = "UseNextIndex") <=> SkipPrivate
        /\ ~SkipPrivate => (Returned(xk.ret) /\ ValidK(xk.ret.val.key.k))
        /\ xk.parent = xk.parent0

\* I_L < n cancelled a valid parent key and the index was skipped
C9_Witness ==
    /\ xk.pc = "derived"
    /\ IndexInRange(xk.index)
    /\ ValidK(xk.parent.val.key.k)
    /\ xk.out_l < curve_n
    /\ (xk.out_l + xk.parent.val.key.k) % curve_n = 0
    /\ xk.ret.exc = "UseNextIndex"
    /\ xk.parent = xk.parent0

\* The child point (I_L.G) + parent.point, the parent's point being k.G
ChildPoint == RepeatedAdd(Point_gen, (xk.out_l + xk.parent.val.key.k) % curve_n).val

SkipPublic == xk.out_l >= curve_n \/ IsIdentity(ChildPoint)

\* C10: for i < 2^31, derive_public_child(i) raises UseNextIndex when
\* I_L >= n and when the child point is the identity, in every other case
\* returns the child with that point, chain code I_R, depth + 1, the
\* fingerprint of the parent and index i, and raises no other error.
C10_PublicChild ==
    (xk.pc = "pubderived" /\ IndexInRange(xk.index) /\ ~Hardened(xk.index)) =>
        LET parent == xk.pub.val
            child == xk.ret.val
        IN /\ SkipPublic => xk.ret.exc = "UseNextIndex"
           /\ ~SkipPublic =>
                 /\ Returned(xk.ret)
                 /\ child.key.point = ChildPoint
                 /\ child.chain_code = xk.out_r
                 /\ child.depth = parent.depth + 1
                 /\ child.parent_fingerprint = Fingerprint(xk.parent.val.key.k)
                 /\ child.index = xk.index
           /\ ~Returned(xk.ret) => xk.ret.exc = "UseNextIndex"

-----------------------------------------------------------------------------
(* wallet.py: KeyStore and HDWallet.  The 64 bytes of                      *)
(* hmac_sha512(b'Bitcoin seed', root_seed) are given as out_l, the integer *)
(* of the left 32 bytes, and out_r, the right 32 bytes.                    *)

\* the parameters of ExtendedKey.__init__ after self
ExtendedKey_parameters ==
    {"key", "chain_code", "depth", "parent_fingerprint", "index"}

\* ExtendedPrivateKey(**kwargs): the keyword arguments are bound to the
\* parameters of ExtendedKey.__init__ and the defaults fill the rest
ExtendedPrivateKey_call(kwargs) ==
    IF DOMAIN kwargs \ ExtendedKey_parameters # {}
    THEN Raise("TypeError", "__init__() got an unexpected keyword argument")
    ELSE IF {"key", "chain_code"} \ DOMAIN kwargs # {}
    THEN Raise("TypeError", "__init__() missing required positional arguments")
    ELSE ExtendedPrivateKey_init(
             kwargs.key, kwargs.chain_code,
             IF "depth" \in DOMAIN kwargs THEN kwargs.depth ELSE 0,
             IF "parent_fingerprint" \in DOMAIN kwargs
             THEN kwargs.parent_fingerprint ELSE ConstBytes(<<0, 0, 0, 0>>),
             IF "index" \in DOMAIN kwargs THEN kwargs.index ELSE << >>)

\* the rest of KeyStore.__init__ once the master private key is constructed:
\* _keys holds it under MASTER_PRIVATE = 'M' and its extended public key
\* under MASTER_PUBLIC = 'm'
KeyStore_with(private) ==
    IF ~Returned(private) THEN private
    ELSE LET public == ExtendedPrivateKey_generate_public_key(private.val)
         IN IF ~Returned(public) THEN public
            ELSE Ok([keys |-> [M |-> private.val, m |-> public.val]])

\* KeyStore(root_seed)
KeyStore_init(root_seed, out_l, out_r) ==
    LET k == out_l
        chain_code == int_from_bytes(out_r)
    IN KeyStore_with(ExtendedPrivateKey_call(
           [k |-> k, chain_code |-> chain_code, compressed |-> TRUE]))

\* the attributes of a KeyStore: what __init__ sets and what the class defines
KeyStore_attributes ==
    {"_keys", "MASTER_PRIVATE", "MASTER_PUBLIC", "_derive_private_key",
     "_derive_public_key", "_derive_hardened_private_key", "derive_key"}

\* key_store.<name>
KeyStore_getattr(name) ==
    IF name \in KeyStore_attributes THEN Ok(name)
    ELSE Raise("AttributeError", "'KeyStore' object has no attribute")

None == [cls |-> "NoneType"]

\* KeyStore.derive_key(self, path): the path is split and nothing is returned
KeyStore_derive_key(path) == Ok(None)

\* HDWallet(seed, mnemonic) once its KeyStore is constructed
HDWallet_with(seed, mnemonic, key_store) ==
    IF ~Returned(key_store) THEN key_store
    ELSE Ok([seed |-> seed, mnemonic |-> mnemonic, key_store |-> key_store.val])

\* HDWallet(seed=seed, mnemonic=mnemonic)
HDWallet_init(seed, mnemonic, out_l, out_r) ==
    HDWallet_with(seed, mnemonic, KeyStore_init(seed, out_l, out_r))

\* wallet = HDWallet(seed=seed); wallet._key_store.get_key(path)
HDWallet_get_key_with(wallet, path) ==
    IF ~Returned(wallet) THEN wallet
    ELSE KeyStore_getattr("get_key")

HDWallet_get_key(seed, path, out_l, out_r) ==
    HDWallet_get_key_with(HDWallet_init(seed, None, out_l, out_r), path)

-----------------------------------------------------------------------------
(* wallet.py: mnemonics.  The integers of 128 to 264 bits (entropy, the    *)
(* packed sequence) are canonical big-endian bit sequences without leading *)
(* zeros ("Bits"); << >> is zero.  A mnemonic string is the sequence of    *)
(* its pieces between single spaces, which is what split(' ') returns and  *)
(* ' '.join builds.  A piece is a word of the 2048-word list, named by its *)
(* position, or a string that is not in the list.  sha256(data)[0] is an   *)
(* oracle that answers digest for the string sha.of and other for every    *)
(* other string.                                                           *)

ListWord(i) == [listed |-> TRUE, at |-> i]

Unlisted(s) == [listed |-> FALSE, at |-> s]

\* MNEMONIC_CODE_WORDS[i]
MNEMONIC_CODE_WORDS(i) ==
    IF 0 <= i /\ i < 2048 THEN Ok(ListWord(i))
    ELSE Raise("IndexError", "list index out of range")

\* REVERSE_MNEMONIC_CODE_WORDS[word]
REVERSE_MNEMONIC_CODE_WORDS(word) ==
    IF word.listed THEN Ok(word.at) ELSE Raise("KeyError", "")

\* the low width bits of a small integer n, high bit first
NatToBits(n, width) == [i \in 1..width |-> (n \div (2 ^ (width - i))) % 2]

RECURSIVE BitsToNat(_)
BitsToNat(b) ==
    IF b = << >> THEN 0 ELSE BitsToNat(DropLast(b, 1)) * 2 + b[Len(b)]

\* a + b + carry for bit strings of one length: <<sum bits, carry out>>
RECURSIVE BitsAddPart(_, _, _)
BitsAddPart(a, b, carry) ==
    IF Len(a) = 0 THEN << << >>, carry >>
    ELSE IF Len(a) = 1
    THEN LET cur == a[1] + b[1] + carry IN << <<cur % 2>>, cur \div 2 >>
    ELSE LET h == Len(a) \div 2
             r == BitsAddPart(SubSeq(a, h + 1, Len(a)), SubSeq(b, h + 1, Len(b)), carry)
             lo == r[1]
             l == BitsAddPart(SubSeq(a, 1, h), SubSeq(b, 1, h), r[2])
         IN IF Len(lo) >= 0 THEN << l[1] \o lo, l[2] >> ELSE << lo, 0 >>

\* a + b for Bits a and b
Bits_add(a, b) ==
    LET width == IF Len(a) > Len(b) THEN Len(a) ELSE Len(b)
        s == BitsAddPart(Repeat(0, width - Len(a)) \o a,
                         Repeat(0, width - Len(b)) \o b, 0)
    IN StripZeros(<<s[2]>> \o s[1])

\* n << k and n >> k for Bits n
Bits_shl(n, k) == IF n = << >> THEN << >> ELSE n \o Repeat(0, k)

Bits_shr(n, k) == DropLast(n, k)

\* n & (2 ** k - 1) for Bits n, a small integer
Bits_mask(n, k) == BitsToNat(TakeLast(n, k))

\* Bits n.to_bytes(length, 'big')
Bits_to_bytes(n, length) ==
    IF Len(n) > 8 * length THEN Raise("OverflowError", "int too big to convert")
    ELSE LET padded == Repeat(0, 8 * length - Len(n)) \o n
         IN Ok([i \in 1..length |-> BitsToNat(SubSeq(padded, 8 * i - 7, 8 * i))])

sha256_0(sha, data) == IF data = sha.of THEN sha.digest ELSE sha.other

\* CHECKSUM_MASKS[checksum_length]: the number of low bits kept
CHECKSUM_MASKS(checksum_length) ==
    IF checksum_length \in 4..8 THEN Ok(checksum_length)
    ELSE Raise("KeyError", "")

WORD_MASK == 11

\* a count test that lets every multiple of three through
mnemonic_bad_count_not_multiple(num_words) == num_words % 3 # 0

\* num_words not in (12, 15, 18, 21, 24)
mnemonic_bad_count(num_words) == num_words \notin {12, 15, 18, 21, 24}

\* the loop of validate_mnemonic over the words left, entered with data; no
\* word left is unknown
RECURSIVE mnemonic_data(_, _)
mnemonic_data(words, data) ==
    IF words = << >> THEN data
    ELSE LET index == REVERSE_MNEMONIC_CODE_WORDS(Head(words)).val
             next == Bits_add(Bits_shl(data, 11), StripZeros(NatToBits(index, 11)))
         IN IF Len(next) >= 0 THEN mnemonic_data(Tail(words), next) ELSE next

\* the checksum comparison of validate_mnemonic on the packed integer data
mnemonic_check(data, num_words, sha) ==
    LET checksum_length == num_words \div 3
        sequence_num_bytes == (num_words * 4) \div 3
        sequence == Bits_to_bytes(Bits_shr(data, checksum_length), sequence_num_bytes)
        mask == CHECKSUM_MASKS(checksum_length)
    IN IF ~Returned(sequence) THEN sequence
       ELSE IF ~Returned(mask) THEN mask
       ELSE IF sha256_0(sha, sequence.val) \div (2 ^ (8 - checksum_length))
               # Bits_mask(data, mask.val)
       THEN Raise("ValueError", "Invalid checksum of mnemonic sequence!")
       ELSE Ok(None)

validate_mnemonic(mnemonic, sha) ==
    LET words == mnemonic
        num_words == Len(words)
    IN IF mnemonic_bad_count(num_words)
       THEN Raise("ValueError", "Invalid number of mnemonic keywords!")
       ELSE IF \E i \in 1..num_words : ~Returned(REVERSE_MNEMONIC_CODE_WORDS(words[i]))
       THEN Raise("ValueError", "Invalid mnemonic keyword")
       ELSE mnemonic_check(mnemonic_data(words, << >>), num_words, sha)

\* HDWallet.from_mnemonic(mnemonic, password); seed is what pbkdf2_hmac returns
HDWallet_from_mnemonic_with(valid, mnemonic, seed, out_l, out_r) ==
    IF ~Returned(valid) THEN valid
    ELSE HDWallet_init(seed, mnemonic, out_l, out_r)

HDWallet_from_mnemonic(mnemonic, sha, seed, out_l, out_r) ==
    HDWallet_from_mnemonic_with(validate_mnemonic(mnemonic, sha), mnemonic,
                                seed, out_l, out_r)

\* size_bits not in (128, 160, 192, 224, 256)
new_bad_size(size_bits) == size_bits \notin {128, 160, 192, 224, 256}

\* the low instead of the high bits of the digest byte
new_checksum_part_low(checksum_0, checksum_length) ==
    checksum_0 % (2 ^ checksum_length)

\* checksum[0] >> (8 - checksum_length)
new_checksum_part(checksum_0, checksum_length) ==
    checksum_0 \div (2 ^ (8 - checksum_length))

\* the word the loop of HDWallet.new appends in its round j = 1, 2, ...
new_word(sequence, j) ==
    MNEMONIC_CODE_WORDS(Bits_mask(Bits_shr(sequence, 11 * (j - 1)), WORD_MASK))

\* the mnemonic HDWallet.new builds from the entropy randbits returned
new_mnemonic(size_bits, entropy, sha) ==
    LET entropy_bytes == Bits_to_bytes(entropy, size_bits \div 8)
        checksum_length == size_bits \div 32
    IN IF ~Returned(entropy_bytes) THEN entropy_bytes
       ELSE LET checksum_part == new_checksum_part(sha256_0(sha, entropy_bytes.val),
                                                   checksum_length)
                sequence == Bits_add(Bits_shl(entropy, checksum_length),
                                     StripZeros(NatToBits(checksum_part, 8)))
                count == (size_bits * 3) \div 32
                mnemonic_words == [j \in 1..count |-> new_word(sequence, j).val]
            IN Ok(Reverse(mnemonic_words))

\* HDWallet.new(password, size_bits)
HDWallet_new(size_bits, entropy, sha, seed, out_l, out_r) ==
    IF new_bad_size(size_bits)
    THEN Raise("ValueError", "size_bits has to be 128, 160, 192, 224 or 256!")
    ELSE LET mnemonic == new_mnemonic(size_bits, entropy, sha)
         IN IF ~Returned(mnemonic) THEN mnemonic
            ELSE HDWallet_from_mnemonic(mnemonic.val, sha, seed, out_l, out_r)

-----------------------------------------------------------------------------
(* The wallet specification: one call of HDWallet(seed), of                *)
(* HDWallet(seed)._key_store.get_key(path), of KeyStore.derive_key(path),  *)
(* of HDWallet.new(size_bits) or of validate_mnemonic(mnemonic).  wl holds *)
(* the arguments, what the oracles answered, the mnemonic HDWallet.new     *)
(* built and what validate_mnemonic made of it, and the outcome.           *)

Seeds == { Repeat(0, 16), Repeat(1, 32), Repeat(255, 64) }

\* the left half of hmac_sha512(b'Bitcoin seed', seed) as an integer
MasterOutL == { 0, 1, 5, curve_n - 1, curve_n }

\* a path split on '/'
Paths == { <<"m">>, <<"m", "0">>, <<"m", "0'">>, <<"m", "44'", "1">>, <<"m", "x">> }

SizeBits == { 0, 64, 128, 129, 160, 192, 224, 256, 512 }

\* what randbits(size_bits) may return: 0, 1, 2^size_bits - 1,
\* 2^(size_bits - 1) and 1010...10
Entropies(size_bits) ==
    { << >>, <<1>>, Repeat(1, size_bits), <<1>> \o Repeat(0, size_bits - 1),
      [i \in 1..size_bits |-> i % 2] }

\* first bytes of a SHA-256 digest
DigestBytes == { 0, 1, 15, 16, 170, 255 }

MnemonicLens == { 1, 9, 12, 13, 15, 18, 21, 24, 25 }

\* a mnemonic of n times one list word, or that with its first or its last
\* piece replaced by the empty string, by a string that is not in the list
\* or by another list word
Mnemonics ==
    UNION { { [i \in 1..n |-> IF i = at THEN piece ELSE ListWord(base)] :
                 base \in {0, 1365, 2047}, at \in {0, 1, n},
                 piece \in {Unlisted(""), Unlisted("zzz"), ListWord(1),
                            ListWord(2046)} } : n \in MnemonicLens }

\* the bits of the words of a mnemonic, 11 for each, unlisted pieces as 0
MnemonicBits(m) ==
    [k \in 1..(11 * Len(m)) |->
        LET piece == m[((k - 1) \div 11) + 1]
        IN NatToBits(IF piece.listed THEN piece.at ELSE 0, 11)[((k - 1) % 11) + 1]]

\* the entropy bytes a mnemonic packs: its first 32 bits of each 33
MnemonicEntropy(m) ==
    LET bits == MnemonicBits(m)
    IN [i \in 1..((Len(m) * 4) \div 3) |-> BitsToNat(SubSeq(bits, 8 * i - 7, 8 * i))]

InitWallet ==
    /\ ecc = EccOff
    /\ b58 = B58Off
    /\ pk = KeyOff
    /\ xk = XKeyOff
    /\ tx = TxOff
    /\ ts = TsOff
    /\ ch = ChainOff
    /\ hp = HeapOff
    /\ cm = CommuteOff
    /\ wl = [pc |-> "start", seed |-> << >>, path |-> << >>, out_l |-> 0,
             out_r |-> << >>, size_bits |-> 0, entropy |-> << >>,
             sha |-> [of |-> << >>, digest |-> 0, other |-> 0],
             mnemonic |-> NoCall, valid |-> NoCall, drawn |-> FALSE,
             ret |-> NoCall]

\* HDWallet(seed=seed)
WalletInit ==
    /\ wl.pc = "start"
    /\ UNCHANGED <<ecc, b58, pk, xk, tx, ts, ch, hp, cm>>
    /\ \E seed \in Seeds, out_l \in MasterOutL, out_r \in ChainCodes :
          wl' = [wl EXCEPT !.pc = "wallet", !.seed = seed, !.out_l = out_l,
                           !.out_r = out_r,
                           !.ret = HDWallet_init(seed, None, out_l, out_r)]

\* k = HDWallet(seed=seed)._key_store; k.get_key(path)
WalletGetKey ==
    /\ wl.pc = "start"
    /\ UNCHANGED <<ecc, b58, pk, xk, tx, ts, ch, hp, cm>>
    /\ \E seed \in Seeds, path \in Paths, out_l \in MasterOutL, out_r \in ChainCodes :
          wl' = [wl EXCEPT !.pc = "get_key", !.seed = seed, !.path = path,
                           !.out_l = out_l, !.out_r = out_r,
                           !.ret = HDWallet_get_key(seed, path, out_l, out_r)]

\* KeyStore.derive_key(self, path), called on the class
WalletDeriveKey ==
    /\ wl.pc = "start"
    /\ UNCHANGED <<ecc, b58, pk, xk, tx, ts, ch, hp, cm>>
    /\ \E path \in Paths :
          wl' = [wl EXCEPT !.pc = "derive_key", !.path = path,
                           !.ret = KeyStore_derive_key(path)]

\* HDWallet.new(size_bits=size_bits)
WalletNew ==
    /\ wl.pc = "start"
    /\ UNCHANGED <<ecc, b58, pk, xk, tx, ts, ch, hp, cm>>
    /\ \E size_bits \in SizeBits :
          IF new_bad_size(size_bits)
          THEN wl' = [wl EXCEPT !.pc = "new", !.size_bits = size_bits,
                                !.ret = HDWallet_new(size_bits, << >>, wl.sha,
                                                     << >>, 0, << >>)]
          ELSE \E entropy \in Entropies(size_bits), digest \in DigestBytes,
                  other \in {0, 255}, out_l \in {1} :
                  LET sha == [of |-> Bits_to_bytes(entropy, size_bits \div 8).val,
                              digest |-> digest, other |-> other]
                      mnemonic == new_mnemonic(size_bits, entropy, sha)
                  IN wl' = [wl EXCEPT
                               !.pc = "new", !.size_bits = size_bits,
                               !.entropy = entropy, !.sha = sha, !.drawn = TRUE,
                               !.out_l = out_l, !.out_r = Repeat(1, 32),
                               !.seed = Repeat(1, 32),
                               !.mnemonic = mnemonic,
                               !.valid = validate_mnemonic(mnemonic.val, sha),
                               !.ret = HDWallet_new(size_bits, entropy, sha,
                                                    Repeat(1, 32), out_l,
                                                    Repeat(1, 32))]

\* validate_mnemonic(mnemonic)
WalletValidate ==
    /\ wl.pc = "start"
    /\ UNCHANGED <<ecc, b58, pk, xk, tx, ts, ch, hp, cm>>
    /\ \E mnemonic \in Mnemonics, digest \in DigestBytes, other \in {0} :
          LET sha == [of |-> MnemonicEntropy(mnemonic), digest |-> digest,
                      other |-> other]
          IN wl' = [wl EXCEPT !.pc = "validated", !.mnemonic = Ok(mnemonic),
                              !.sha = sha,
                              !.ret = validate_mnemonic(mnemonic, sha)]

NextWallet ==
    WalletInit \/ WalletGetKey \/ WalletDeriveKey \/ WalletNew \/ WalletValidate

SpecWallet == InitWallet /\ [][NextWallet]_vars

\* C11: HDWallet(seed) returns for every seed, and its key store holds the
\* master extended private key (k the integer of the left half of the HMAC
\* output, chain code the right half as 32 bytes, depth 0, parent
\* fingerprint 00000000, index 0, compressed) and the extended public key
\* generated from it.
C11_MasterKeys ==
    wl.pc = "wallet" =>
        /\ Returned(wl.ret)
        /\ wl.ret.val.key_store.keys.M =
               ExtendedKey("ExtendedPrivateKey", PrivateKey(wl.out_l, FALSE, TRUE),
                           wl.out_r, 0, ConstBytes(<<0, 0, 0, 0>>), << >>)
        /\ ExtendedPrivateKey_generate_public_key(
               wl.ret.val.key_store.keys.M) =
               Ok(wl.ret.val.key_store.keys.m)

\* the private derivations a path asks for: one for each token after 'm'
PathTokens == { "0", "1", "0'", "44'" }

\* C12: get_key(path) returns an extended private key whose depth is the
\* number of tokens after 'm' (the master key itself for 'm'), fails with
\* BadPath (a ValueError) on a token that is neither i nor i', and raises
\* nothing else but UseNextIndex.
C12_GetKeyWalksPath ==
    wl.pc = "get_key" =>
        IF \E i \in 2..Len(wl.path) : wl.path[i] \notin PathTokens
        THEN wl.ret.exc = "ValueError"
        ELSE \/ wl.ret.exc = "UseNextIndex"
             \/ /\ Returned(wl.ret)
                /\ wl.ret.val.cls = "ExtendedPrivateKey"
                /\ wl.ret.val.depth = Len(wl.path) - 1
                /\ Len(wl.path) = 1 =>
                       wl.ret.val = ExtendedKey("ExtendedPrivateKey",
                                                PrivateKey(wl.out_l, FALSE, TRUE),
                                                wl.out_r, 0,
                                                ConstBytes(<<0, 0, 0, 0>>), << >>)

\* the top checksum_length bits of the digest byte the oracle answers for data
TopBits(sha, data, checksum_length) ==
    (IF data = sha.of THEN sha.digest ELSE sha.other) \div (2 ^ (8 - checksum_length))

\* size_bits entropy bits, leading zeros kept, then the checksum bits
SequenceBits(size_bits, entropy, sha) ==
    LET wide == Repeat(0, size_bits - Len(entropy)) \o entropy
        bytes == [i \in 1..(size_bits \div 8) |->
                     BitsToNat(SubSeq(wide, 8 * i - 7, 8 * i))]
    IN wide \o NatToBits(TopBits(sha, bytes, size_bits \div 32), size_bits \div 32)

\* C13: for size_bits in {128, 160, 192, 224, 256} the mnemonic HDWallet.new
\* builds has size_bits * 3 / 32 words, its j-th word being the j-th 11-bit
\* group, high to low, of the entropy bits followed by the checksum bits,
\* and validate_mnemonic accepts it; any other size_bits raises the
\* size_bits ValueError before entropy is drawn.
C13_NewMnemonic ==
    wl.pc = "new" =>
        IF wl.size_bits \in {128, 160, 192, 224, 256}
        THEN /\ Returned(wl.mnemonic)
             /\ Len(wl.mnemonic.val) = (wl.size_bits * 3) \div 32
             /\ \A j \in 1..Len(wl.mnemonic.val) :
                   wl.mnemonic.val[j] =
                       ListWord(BitsToNat(SubSeq(
                           SequenceBits(wl.size_bits, wl.entropy, wl.sha),
                           11 * j - 10, 11 * j)))
             /\ Returned(wl.valid)
        ELSE /\ wl.ret.exc = "ValueError"
             /\ wl.ret.msg = "size_bits has to be 128, 160, 192, 224 or 256!"
             /\ ~wl.drawn

\* a 12-word mnemonic was built from the entropy 1, whose 127 leading bits
\* are zero, with checksum bits 0001, and validated
C13_Witness ==
    /\ wl.pc = "new"
    /\ wl.size_bits = 128
    /\ wl.entropy = <<1>>
    /\ wl.sha.digest = 16
    /\ Returned(wl.mnemonic)
    /\ wl.mnemonic.val[12] = ListWord(17)
    /\ Returned(wl.valid)

\* C14: validate_mnemonic returns exactly when the mnemonic has 12, 15, 18,
\* 21 or 24 pieces, every piece is a list word and the low (count / 3) bits
\* of the packed words are the top bits of the digest of the entropy bytes;
\* otherwise it raises ValueError for the word count, else for an unknown
\* word, else for the checksum.
C14_ValidateMnemonic ==
    wl.pc = "validated" =>
        LET m == wl.mnemonic.val
            n == Len(m)
        IN IF n \notin {12, 15, 18, 21, 24}
           THEN /\ wl.ret.exc = "ValueError"
                /\ wl.ret.msg = "Invalid number of mnemonic keywords!"
           ELSE IF \E i \in 1..n : ~m[i].listed
           THEN /\ wl.ret.exc = "ValueError"
                /\ wl.ret.msg = "Invalid mnemonic keyword"
           ELSE IF BitsToNat(TakeLast(MnemonicBits(m), n \div 3))
                   # TopBits(wl.sha, MnemonicEntropy(m), n \div 3)
           THEN /\ wl.ret.exc = "ValueError"
                /\ wl.ret.msg = "Invalid checksum of mnemonic sequence!"
           ELSE Returned(wl.ret)

\* a 24-word mnemonic whose last word carries the eight checksum bits was
\* accepted, and one with an unknown last piece and a wrong checksum was
\* refused for the piece
C14_Witness ==
    /\ wl.pc = "validated"
    /\ Len(wl.mnemonic.val) = 24
    /\ wl.mnemonic.val[24] = ListWord(1)
    /\ wl.mnemonic.val[1] = ListWord(0)
    /\ wl.sha.digest = 1
    /\ Returned(wl.ret)

-----------------------------------------------------------------------------
(* script.py: script_encode.  A str is the sequence of its characters.     *)

\* class OpCodes: each member's name and value, aliases included
OpCodes ==
    { <<<<"O", "P", "_", "0">>, <<0>>>>,
      <<<<"O", "P", "_", "F", "A", "L", "S", "E">>, <<0>>>>,
      <<<<"O", "P", "_", "P", "U", "S", "H", "D", "A", "T", "A", "1">>, <<76>>>>,
      <<<<"O", "P", "_", "P", "U", "S", "H", "D", "A", "T", "A", "2">>, <<77>>>>,
      <<<<"O", "P", "_", "P", "U", "S", "H", "D", "A", "T", "A", "4">>, <<78>>>>,
      <<<<"O", "P", "_", "1", "N", "E", "G", "A", "T", "E">>, <<79>>>>,
      <<<<"O", "P", "_", "R", "E", "S", "E", "R", "V", "E", "D">>, <<80>>>>,
      <<<<"O", "P", "_", "1">>, <<81>>>>,
      <<<<"O", "P", "_", "T", "R", "U", "E">>, <<81>>>>,
      <<<<"O", "P", "_", "2">>, <<82>>>>,
      <<<<"O", "P", "_", "3">>, <<83>>>>,
      <<<<"O", "P", "_", "4">>, <<84>>>>,
      <<<<"O", "P", "_", "5">>, <<85>>>>,
      <<<<"O", "P", "_", "6">>, <<86>>>>,
      <<<<"O", "P", "_", "7">>, <<87>>>>,
      <<<<"O", "P", "_", "8">>, <<88>>>>,
      <<<<"O", "P", "_", "9">>, <<89>>>>,
      <<<<"O", "P", "_", "1", "0">>, <<90>>>>,
      <<<<"O", "P", "_", "1", "1">>, <<91>>>>,
      <<<<"O", "P", "_", "1", "2">>, <<92>>>>,
      <<<<"O", "P", "_", "1", "3">>, <<93>>>>,
      <<<<"O", "P", "_", "1", "4">>, <<94>>>>,
      <<<<"O", "P", "_", "1", "5">>, <<95>>>>,
      <<<<"O", "P", "_", "1", "6">>, <<96>>>>,
      <<<<"O", "P", "_", "N", "O", "P">>, <<97>>>>,
      <<<<"O", "P", "_", "V", "E", "R">>, <<98>>>>,
      <<<<"O", "P", "_", "I", "F">>, <<99>>>>,
      <<<<"O", "P", "_", "N", "O", "T", "I", "F">>, <<100>>>>,
      <<<<"O", "P", "_", "V", "E", "R", "I", "F">>, <<101>>>>,
      <<<<"O", "P", "_", "V", "E", "R", "N", "O", "T", "I", "F">>, <<102>>>>,
      <<<<"O", "P", "_", "E", "L", "S", "E">>, <<103>>>>,
      <<<<"O", "P", "_", "E", "N", "D", "I", "F">>, <<104>>>>,
      <<<<"O", "P", "_", "V", "E", "R", "I", "F", "Y">>, <<105>>>>,
      <<<<"O", "P", "_", "R", "E", "T", "U", "R", "N">>, <<106>>>>,
      <<<<"O", "P", "_", "T", "O", "A", "L", "T", "S", "T", "A", "C", "K">>, <<107>>>>,
      <<<<"O", "P", "_", "F", "R", "O", "M", "A", "L", "T", "S", "T", "A", "C", "K">>, <<108>>>>,
      <<<<"O", "P", "_", "2", "D", "R", "O", "P">>, <<109>>>>,
      <<<<"O", "P", "_", "2", "D", "U", "P">>, <<110>>>>,
      <<<<"O", "P", "_", "3", "D", "U", "P">>, <<111>>>>,
      <<<<"O", "P", "_", "2", "O", "V", "E", "R">>, <<112>>>>,
      <<<<"O", "P", "_", "2", "R", "O", "T">>, <<113>>>>,
      <<<<"O", "P", "_", "2", "S", "W", "A", "P">>, <<114>>>>,
      <<<<"O", "P", "_", "I", "F", "D", "U", "P">>, <<115>>>>,
      <<<<"O", "P", "_", "D", "E", "P", "T", "H">>, <<116>>>>,
      <<<<"O", "P", "_", "D", "R", "O", "P">>, <<117>>>>,
      <<<<"O", "P", "_", "D", "U", "P">>, <<118>>>>,
      <<<<"O", "P", "_", "N", "I", "P">>, <<119>>>>,
      <<<<"O", "P", "_", "O", "V", "E", "R">>, <<120>>>>,
      <<<<"O", "P", "_", "P", "I", "C", "K">>, <<121>>>>,
      <<<<"O", "P", "_", "R", "O", "L", "L">>, <<122>>>>,
      <<<<"O", "P", "_", "R", "O", "T">>, <<123>>>>,
      <<<<"O", "P", "_", "S", "W", "A", "P">>, <<124>>>>,
      <<<<"O", "P", "_", "T", "U", "C", "K">>, <<125>>>>,
      <<<<"O", "P", "_", "C", "A", "T">>, <<126>>>>,
      <<<<"O", "P", "_", "S", "U", "B", "S", "T", "R">>, <<127>>>>,
      <<<<"O", "P", "_", "L", "E", "F", "T">>, <<128>>>>,
      <<<<"O", "P", "_", "R", "I", "G", "H", "T">>, <<129>>>>,
      <<<<"O", "P", "_", "S", "I", "Z", "E">>, <<130>>>>,
      <<<<"O", "P", "_", "I", "N", "V", "E", "R", "T">>, <<131>>>>,
      <<<<"O", "P", "_", "A", "N", "D">>, <<132>>>>,
      <<<<"O", "P", "_", "O", "R">>, <<133>>>>,
      <<<<"O", "P", "_", "X", "O", "R">>, <<134>>>>,
      <<<<"O", "P", "_", "E", "Q", "U", "A", "L">>, <<135>>>>,
      <<<<"O", "P", "_", "E", "Q", "U", "A", "L", "V", "E", "R", "I", "F", "Y">>, <<136>>>>,
      <<<<"O", "P", "_", "R", "E", "S", "E", "R", "V", "E", "D", "1">>, <<137>>>>,
      <<<<"O", "P", "_", "R", "E", "S", "E", "R", "V", "E", "D", "2">>, <<138>>>>,
      <<<<"O", "P", "_", "1", "A", "D", "D">>, <<139>>>>,
      <<<<"O", "P", "_", "1", "S", "U", "B">>, <<140>>>>,
      <<<<"O", "P", "_", "2", "M", "U", "L">>, <<141>>>>,
      <<<<"O", "P", "_", "2", "D", "I", "V">>, <<142>>>>,
      <<<<"O", "P", "_", "N", "E", "G", "A", "T", "E">>, <<143>>>>,
      <<<<"O", "P", "_", "A", "B", "S">>, <<144>>>>,
      <<<<"O", "P", "_", "N", "O", "T">>, <<145>>>>,
      <<<<"O", "P", "_", "0", "N", "O", "T", "E", "Q", "U", "A", "L">>, <<146>>>>,
      <<<<"O", "P", "_", "A", "D", "D">>, <<147>>>>,
      <<<<"O", "P", "_", "S", "U", "B">>, <<148>>>>,
      <<<<"O", "P", "_", "M", "U", "L">>, <<149>>>>,
      <<<<"O", "P", "_", "D", "I", "V">>, <<150>>>>,
      <<<<"O", "P", "_", "M", "O", "D">>, <<151>>>>,
      <<<<"O", "P", "_", "L", "S", "H", "I", "F", "T">>, <<152>>>>,
      <<<<"O", "P", "_", "R", "S", "H", "I", "F", "T">>, <<153, 98>>>>,
      <<<<"O", "P", "_", "B", "O", "O", "L", "A", "N", "D">>, <<154>>>>,
      <<<<"O", "P", "_", "B", "O", "O", "L", "O", "R">>, <<155>>>>,
      <<<<"O", "P", "_", "N", "U", "M", "E", "Q", "U", "A", "L">>, <<156>>>>,
      <<<<"O", "P", "_", "N", "U", "M", "E", "Q", "U", "A", "L", "V", "E", "R", "I", "F", "Y">>, <<157>>>>,
      <<<<"O", "P", "_", "N", "U", "M", "N", "O", "T", "E", "Q", "U", "A", "L">>, <<158>>>>,
      <<<<"O", "P", "_", "L", "E", "S", "S", "T", "H", "A", "N">>, <<159>>>>,
      <<<<"O", "P", "_", "G", "R", "E", "A", "T", "E", "R", "T", "H", "A", "N">>, <<160>>>>,
      <<<<"O", "P", "_", "L", "E", "S", "S", "T", "H", "A", "N", "O", "R", "E", "Q", "U", "A", "L">>, <<161>>>>,
      <<<<"O", "P", "_", "G", "R", "E", "A", "T", "E", "R", "T", "H", "A", "N", "O", "R", "E", "Q", "U", "A", "L">>, <<162>>>>,
      <<<<"O", "P", "_", "M", "I", "N">>, <<163>>>>,
      <<<<"O", "P", "_", "M", "A", "X">>, <<164>>>>,
      <<<<"O", "P", "_", "W", "I", "T", "H", "I", "N">>, <<165>>>>,
      <<<<"O", "P", "_", "R", "I", "P", "E", "M", "D", "1", "6", "0">>, <<166>>>>,
      <<<<"O", "P", "_", "S", "H", "A", "1">>, <<167>>>>,
      <<<<"O", "P", "_", "S", "H", "A", "2", "5", "6">>, <<168>>>>,
      <<<<"O", "P", "_", "H", "A", "S", "H", "1", "6", "0">>, <<169>>>>,
      <<<<"O", "P", "_", "H", "A", "S", "H", "2", "5", "6">>, <<170>>>>,
      <<<<"O", "P", "_", "C", "O", "D", "E", "S", "E", "P", "A", "R", "A", "T", "O", "R">>, <<171>>>>,
      <<<<"O", "P", "_", "C", "H", "E", "C", "K", "S", "I", "G">>, <<172>>>>,
      <<<<"O", "P", "_", "C", "H", "E", "C", "K", "S", "I", "G", "V", "E", "R", "I", "F", "Y">>, <<173>>>>,
      <<<<"O", "P", "_", "C", "H", "E", "C", "K", "M", "U", "L", "T", "I", "S", "I", "G">>, <<174>>>>,
      <<<<"O", "P", "_", "C", "H", "E", "C", "K", "M", "U", "L", "T", "I", "S", "I", "G", "V", "E", "R", "I", "F", "Y">>, <<175>>>>,
      <<<<"O", "P", "_", "N", "O", "P", "1">>, <<176>>>>,
      <<<<"O", "P", "_", "C", "H", "E", "C", "K", "L", "O", "C", "K", "T", "I", "M", "E", "V", "E", "R", "I", "F", "Y">>, <<177>>>>,
      <<<<"O", "P", "_", "N", "O", "P", "2">>, <<177>>>>,
      <<<<"O", "P", "_", "C", "H", "E", "C", "K", "S", "E", "Q", "U", "E", "N", "C", "E", "V", "E", "R", "I", "F", "Y">>, <<178>>>>,
      <<<<"O", "P", "_", "N", "O", "P", "3">>, <<178>>>>,
      <<<<"O", "P", "_", "N", "O", "P", "4">>, <<179>>>>,
      <<<<"O", "P", "_", "N", "O", "P", "5">>, <<180>>>>,
      <<<<"O", "P", "_", "N", "O", "P", "6">>, <<181>>>>,
      <<<<"O", "P", "_", "N", "O", "P", "7">>, <<182>>>>,
      <<<<"O", "P", "_", "N", "O", "P", "8">>, <<183>>>>,
      <<<<"O", "P", "_", "N", "O", "P", "9">>, <<184>>>>,
      <<<<"O", "P", "_", "N", "O", "P", "1", "0">>, <<185>>>>,
      <<<<"O", "P", "_", "I", "N", "V", "A", "L", "I", "D", "O", "P", "C", "O", "D", "E">>, <<255>>>> }

\* OpCodes[token].value
OpCodes_value(token) ==
    IF \E e \in OpCodes : e[1] = token
    THEN Ok((CHOOSE e \in OpCodes : e[1] = token)[2])
    ELSE Raise("KeyError", "")

Whitespace == { " ", "\t", "\n" }

\* script.split(): the maximal runs of characters that are not whitespace
split(script) ==
    LET starts == { i \in 1..Len(script) :
                      /\ script[i] \notin Whitespace
                      /\ (i = 1 \/ script[i - 1] \in Whitespace) }
        start(k) == CHOOSE i \in starts : Cardinality({ j \in starts : j < i }) = k - 1
        stop(i) == IF \E j \in i..Len(script) : script[j] \in Whitespace
                   THEN (CHOOSE j \in i..Len(script) :
                            /\ script[j] \in Whitespace
                            /\ \A l \in i..(j - 1) : script[l] \notin Whitespace) - 1
                   ELSE Len(script)
    IN [k \in 1..Cardinality(starts) |-> SubSeq(script, start(k), stop(start(k)))]

HexDigits ==
    << "0", "1", "2", "3", "4", "5", "6", "7", "8", "9",
       "a", "b", "c", "d", "e", "f", "A", "B", "C", "D", "E", "F" >>

IsHexDigit(c) == \E i \in 1..Len(HexDigits) : HexDigits[i] = c

HexValue(c) ==
    LET i == CHOOSE j \in 1..Len(HexDigits) : HexDigits[j] = c
    IN IF i > 16 THEN i - 7 ELSE i - 1

\* bytes.fromhex(token) for a token without whitespace
bytes_fromhex(token) ==
    IF Len(token) % 2 # 0 \/ \E i \in 1..Len(token) : ~IsHexDigit(token[i])
    THEN Raise("ValueError", "non-hexadecimal number found in fromhex() arg")
    ELSE Ok([i \in 1..(Len(token) \div 2) |->
                16 * HexValue(token[2 * i - 1]) + HexValue(token[2 * i])])

\* the branch of script_encode for a token that is no member of OpCodes
encode_data(encoded_data) ==
    IF ~Returned(encoded_data) THEN encoded_data
    ELSE LET length == to_bytes(Len(encoded_data.val), 1)
         IN IF ~Returned(length) THEN length
            ELSE Ok(length.val \o encoded_data.val)

\* one round of the loop of script_encode
encode_token(token) ==
    LET value == OpCodes_value(token)
    IN IF Returned(value) THEN value ELSE encode_data(bytes_fromhex(token))

\* b''.join(data)
RECURSIVE join(_)
join(data) == IF data = << >> THEN << >> ELSE Head(data) \o join(Tail(data))

script_encode(script) ==
    LET tokens == split(script)
        data == [k \in 1..Len(tokens) |-> encode_token(tokens[k])]
        raised == { k \in 1..Len(tokens) : ~Returned(data[k]) }
    IN IF raised # {}
       THEN data[CHOOSE k \in raised : \A l \in raised : k <= l]
       ELSE Ok(join([k \in 1..Len(tokens) |-> data[k].val]))

-----------------------------------------------------------------------------
(* transaction.py: varint_encode, Vin, Vout, Transaction *)

RECURSIVE varint_encode(_)
varint_encode(x) ==
    IF x = 0 THEN << >>
    ELSE LET number == x % 128
             rest == x \div 128
         IN <<IF rest # 0 THEN number + 128 ELSE number>> \o varint_encode(rest)

\* n.to_bytes(length, byteorder=LITTLE) for a small integer n
to_bytes_little(n, length) ==
    LET big == to_bytes(n, length)
    IN IF Returned(big) THEN Ok(Reverse(big.val)) ELSE big

\* the attributes of the type bytes that the module uses or could use
bytes_attributes == { "fromhex", "hex", "join" }

\* bytes.from_hex(s)
bytes_from_hex(s) ==
    IF "from_hex" \in bytes_attributes THEN bytes_fromhex(s)
    ELSE Raise("AttributeError", "type object 'bytes' has no attribute 'from_hex'")

Vin(txid, vout_index, script_sig, sequence) ==
    [cls |-> "Vin", txid |-> txid, vout_index |-> vout_index,
     script_sig |-> script_sig, sequence |-> sequence]

Vin_slots == { "txid", "vout_index", "script_sig", "sequence" }

\* Vin.__init__: every attribute it assigns is a slot
Vin_init(txid, vout_index, script_sig, sequence) ==
    IF {"txid", "vout_index", "script_sig", "sequence"} \subseteq Vin_slots
    THEN Ok(Vin(txid, vout_index, script_sig, sequence))
    ELSE Raise("AttributeError", "'Vin' object has no attribute")

\* the first failure among the parts of a serialization, or their
\* concatenation
concat(parts) ==
    LET raised == { k \in 1..Len(parts) : ~Returned(parts[k]) }
    IN IF raised # {}
       THEN parts[CHOOSE k \in raised : \A l \in raised : k <= l]
       ELSE Ok(join([k \in 1..Len(parts) |-> parts[k].val]))

Vin_serialize(self) ==
    concat(<< bytes_from_hex(self.txid),
              to_bytes_little(self.vout_index, 4),
              Ok(varint_encode(Len(self.script_sig))),
              script_encode(self.script_sig),
              to_bytes_little(self.sequence, 4) >>)

Vout_slots == { "value", "scriptPubKey" }

\* Vout.__init__: self.value = value; self.script_pub_key = script_pub_key
Vout_init(value, script_pub_key) ==
    IF "value" \notin Vout_slots
    THEN Raise("AttributeError", "'Vout' object has no attribute 'value'")
    ELSE IF "script_pub_key" \notin Vout_slots
    THEN Raise("AttributeError", "'Vout' object has no attribute 'script_pub_key'")
    ELSE Ok([cls |-> "Vout", value |-> value, script_pub_key |-> script_pub_key])

Vout_serialize(self) ==
    concat(<< to_bytes_little(self.value, 8),
              Ok(varint_encode(Len(self.script_pub_key))),
              script_encode(self.script_pub_key) >>)

Transaction(version, locktime, vins, vouts) ==
    [version |-> version, locktime |-> locktime, vins |-> vins, vouts |-> vouts]

Transaction_serialize(self) ==
    concat(<< to_bytes_little(self.version, 1),
              Ok(varint_encode(Len(self.vins))),
              concat([k \in 1..Len(self.vins) |-> Vin_serialize(self.vins[k])]),
              Ok(varint_encode(Len(self.vouts))),
              concat([k \in 1..Len(self.vouts) |-> Vout_serialize(self.vouts[k])]),
              to_bytes_little(self.locktime, 4) >>)

-----------------------------------------------------------------------------
(* The script and transaction specification: one call of script_encode, of *)
(* Vout(value, script).serialize(), of Vin(...).serialize() or of          *)
(* Transaction(...).serialize().  tx holds the arguments and the outcome.  *)

\* tokens: opcode names, hex strings of 1, 2, 255 and 256 bytes, and strings
\* that are neither
ScriptTokens ==
    { <<"O", "P", "_", "D", "U", "P">>,
      <<"O", "P", "_", "R", "S", "H", "I", "F", "T">>,
      <<"O", "P", "_", "F", "O", "O">>,
      <<"a", "b">>, <<"0", "0">>, <<"A", "b", "C", "d">>,
      <<"a", "b", "c">>, <<"z", "z">> }

LongTokens ==
    { [i \in 1..510 |-> IF i % 2 = 1 THEN "a" ELSE "b"],
      [i \in 1..512 |-> IF i % 2 = 1 THEN "a" ELSE "b"] }

\* a script of no token, of one token, or of two with whitespace between
\* and around them
Scripts ==
    { << >>, <<" ">> }
    \cup { e[1] : e \in OpCodes }
    \cup ScriptTokens \cup LongTokens
    \cup { a \o <<" ">> \o b : a, b \in ScriptTokens }
    \cup { <<" ">> \o a \o <<"\t", " ">> \o b \o <<"\n">> : a, b \in ScriptTokens }

TxScripts ==
    { << >>, <<"O", "P", "_", "D", "U", "P">>,
      <<"a", "b", " ", "O", "P", "_", "0">> }

Txids == { Repeat("0", 64), [i \in 1..64 |-> IF i % 2 = 1 THEN "a" ELSE "b"] }

Vins ==
    { Vin(txid, vout_index, script_sig, sequence) :
          txid \in Txids, vout_index \in {0, 258}, script_sig \in TxScripts,
          sequence \in {0, 65535} }

VoutValues == { -1, 0, 1, 5000000 }

InitTx ==
    /\ ecc = EccOff
    /\ b58 = B58Off
    /\ pk = KeyOff
    /\ xk = XKeyOff
    /\ wl = WalletOff
    /\ ts = TsOff
    /\ ch = ChainOff
    /\ hp = HeapOff
    /\ cm = CommuteOff
    /\ tx = [pc |-> "start", script |-> << >>, value |-> 0, vin |-> NoCall,
             txn |-> Transaction(1, 0, << >>, << >>), ret |-> NoCall]

\* script_encode(script)
TxScriptEncode ==
    /\ tx.pc = "start"
    /\ UNCHANGED <<ecc, b58, pk, xk, wl, ts, ch, hp, cm>>
    /\ \E script \in Scripts :
          tx' = [tx EXCEPT !.pc = "script", !.script = script,
                           !.ret = script_encode(script)]

\* vout.serialize() for the outcome of Vout(...)
Vout_serialize_of(vout) ==
    IF Returned(vout) THEN Vout_serialize(vout.val) ELSE vout

\* Vout(value=value, script_pub_key=script).serialize()
TxVout ==
    /\ tx.pc = "start"
    /\ UNCHANGED <<ecc, b58, pk, xk, wl, ts, ch, hp, cm>>
    /\ \E value \in VoutValues, script \in TxScripts :
          tx' = [tx EXCEPT !.pc = "vout", !.value = value, !.script = script,
                           !.ret = Vout_serialize_of(Vout_init(value, script))]

\* vin.serialize() for the outcome of Vin(...)
Vin_serialize_of(vin) ==
    IF Returned(vin) THEN Vin_serialize(vin.val) ELSE vin

\* Vin(txid, vout_index, script_sig, sequence).serialize()
TxVin ==
    /\ tx.pc = "start"
    /\ UNCHANGED <<ecc, b58, pk, xk, wl, ts, ch, hp, cm>>
    /\ \E v \in Vins :
          LET vin == Vin_init(v.txid, v.vout_index, v.script_sig, v.sequence)
          IN tx' = [tx EXCEPT !.pc = "vin", !.vin = vin,
                              !.ret = Vin_serialize_of(vin)]

\* Transaction(version, locktime, vins, vouts).serialize(); no Vout exists
\* to put into vouts
TxSerialize ==
    /\ tx.pc = "start"
    /\ UNCHANGED <<ecc, b58, pk, xk, wl, ts, ch, hp, cm>>
    /\ \E version \in {1, 2}, locktime \in {0, 500000},
          vins \in { << >> } \cup { <<v>> : v \in Vins }
                   \cup { <<v, w>> : v, w \in { u \in Vins : u.script_sig = << >> } } :
          LET txn == Transaction(version, locktime, vins, << >>)
          IN tx' = [tx EXCEPT !.pc = "txn", !.txn = txn,
                              !.ret = Transaction_serialize(txn)]

NextTx == TxScriptEncode \/ TxVout \/ TxVin \/ TxSerialize

SpecTx == InitTx /\ [][NextTx]_vars

IsOpName(token) == \E e \in OpCodes : e[1] = token

IsHex(token) ==
    Len(token) % 2 = 0 /\ \A i \in 1..Len(token) : IsHexDigit(token[i])

\* one byte for each opcode token, one more than its bytes for each hex token
RECURSIVE EncodedLength(_)
EncodedLength(tokens) ==
    IF tokens = << >> THEN 0
    ELSE (IF IsOpName(Head(tokens)) THEN 1 ELSE 1 + Len(Head(tokens)) \div 2)
         + EncodedLength(Tail(tokens))

\* C15: script_encode returns, for a script whose tokens are all opcode
\* names or hex, one byte for each opcode token and a length byte followed
\* by the data for each hex token; with a token that is neither it raises
\* ValueError (BadScriptToken).
C15_ScriptEncode ==
    tx.pc = "script" =>
        LET tokens == split(tx.script)
        IN IF \A k \in 1..Len(tokens) : IsOpName(tokens[k]) \/ IsHex(tokens[k])
           THEN /\ Returned(tx.ret)
                /\ Len(tx.ret.val) = EncodedLength(tokens)
           ELSE tx.ret.exc = "ValueError"

\* the byte i = 1..8 of a small integer as 8 little-endian signed bytes
SignedLE8(value) ==
    [i \in 1..8 |-> IF i <= 3 THEN (value \div (256 ^ (i - 1))) % 256
                    ELSE IF i = 4 THEN (value \div 16777216) % 256
                    ELSE IF value < 0 THEN 255 ELSE 0]

UnsignedLE4(n) == [i \in 1..4 |-> (n \div (256 ^ (i - 1))) % 256]

\* C16: constructing a Vout succeeds and serialize() returns the value as 8
\* little-endian signed bytes, then the varint of the number of script
\* bytes, then the script bytes.
C16_VoutSerialize ==
    tx.pc = "vout" =>
        LET script_bytes == script_encode(tx.script).val
        IN /\ Returned(tx.ret)
           /\ tx.ret.val = SignedLE8(tx.value) \o varint_encode(Len(script_bytes))
                             \o script_bytes

\* what the claim says a Vin serializes to
VinBytes(vin) ==
    LET script_bytes == script_encode(vin.script_sig).val
    IN bytes_fromhex(vin.txid).val \o UnsignedLE4(vin.vout_index)
         \o varint_encode(Len(script_bytes)) \o script_bytes
         \o UnsignedLE4(vin.sequence)

\* C17: Vin.serialize() returns txid, vout_index (4 bytes little-endian),
\* the varint of the number of script bytes, the script bytes and sequence
\* (4 bytes little-endian); Transaction.serialize() returns version, the
\* varint of the number of vins, the vins, the varint of the number of
\* vouts, the vouts and locktime (4 bytes little-endian).
C17_VinAndTransaction ==
    /\ tx.pc = "vin" =>
          /\ Returned(tx.ret)
          /\ tx.ret.val = VinBytes(tx.vin.val)
    /\ tx.pc = "txn" =>
          /\ Returned(tx.ret)
          /\ tx.ret.val =
                 <<tx.txn.version>> \o varint_encode(Len(tx.txn.vins))
                   \o join([k \in 1..Len(tx.txn.vins) |-> VinBytes(tx.txn.vins[k])])
                   \o varint_encode(Len(tx.txn.vouts))
                   \o UnsignedLE4(tx.txn.locktime)

-----------------------------------------------------------------------------
(* The square-root specification: one call of tonelli_shanks(n, p) for an  *)
(* odd prime p, among them primes with p - 1 divisible by 4, 8, 16 and 32. *)

OddPrimes == { 3, 5, 7, 11, 13, 17, 29, 41, 43, 97 }

InitTs ==
    /\ ecc = EccOff
    /\ b58 = B58Off
    /\ pk = KeyOff
    /\ xk = XKeyOff
    /\ wl = WalletOff
    /\ tx = TxOff
    /\ ch = ChainOff
    /\ hp = HeapOff
    /\ cm = CommuteOff
    /\ ts = [pc |-> "start", n |-> 0, p |-> 3, ret |-> NoCall]

\* tonelli_shanks(n, p)
TsCall ==
    /\ ts.pc = "start"
    /\ UNCHANGED <<ecc, b58, pk, xk, wl, tx, ch, hp, cm>>
    /\ \E p \in OddPrimes :
          \E n \in 0..(p - 1) :
              ts' = [ts EXCEPT !.pc = "called", !.n = n, !.p = p,
                               !.ret = tonelli_shanks(n, p)]

NextTs == TsCall

SpecTs == InitTs /\ [][NextTs]_vars

\* n is a non-zero square modulo p
IsResidue(n, p) == n % p # 0 /\ \E r \in 1..(p - 1) : (r * r) % p = n % p

\* C18: for an odd prime p, tonelli_shanks(n, p) returns (r, p - r) with
\* r * r = n (mod p) when n is a quadratic residue, whatever power of two
\* divides p - 1, and raises ValueError when n is not.
C18_SquareRoots ==
    ts.pc = "called" =>
        IF IsResidue(ts.n, ts.p)
        THEN /\ Returned(ts.ret)
             /\ (ts.ret.val[1] * ts.ret.val[1]) % ts.p = ts.n
             /\ ts.ret.val[2] = ts.p - ts.ret.val[1]
        ELSE /\ ts.ret.exc = "ValueError"
             /\ ts.ret.msg = "not a square root"

-----------------------------------------------------------------------------
(* keys.py: ExtendedKey.to_wif.  The digest argument is what               *)
(* ripemd160(sha256(...)) answered where parent_fingerprint was taken from *)
(* a digest.                                                               *)

\* cls.VERSIONS['testnet' if self.key.testnet else 'mainnet']
ExtendedKey_get_version(self) ==
    IF self.cls = "ExtendedPrivateKey"
    THEN (IF self.key.testnet THEN <<4, 53, 131, 148>> ELSE <<4, 136, 173, 228>>)
    ELSE (IF self.key.testnet THEN <<4, 53, 135, 207>> ELSE <<4, 136, 178, 30>>)

ExtendedKey_get_encoded_key(self) ==
    IF self.cls = "ExtendedPrivateKey"
    THEN PrivateKey_encode(self.key, <<0>>, << >>)
    ELSE Ok(PublicKey_encode(self.key, TRUE))

\* the bytes of a value that is a byte string or the first bytes of a digest
Digest_bytes(term, digest) ==
    IF term.fn = "bytes" THEN SubSeq(term.of, 1, term.first)
    ELSE SubSeq(digest, 1, term.first)

\* the payload of to_wif
ExtendedKey_payload(self, digest) ==
    LET version == ExtendedKey_get_version(self)
        depth == to_bytes(self.depth, 1)
        child_number == Big_to_bytes(self.index, 4)
        encoded_key == ExtendedKey_get_encoded_key(self)
    IN IF ~Returned(depth) THEN depth
       ELSE IF ~Returned(child_number) THEN child_number
       ELSE IF ~Returned(encoded_key) THEN encoded_key
       ELSE Ok(version \o depth.val \o Digest_bytes(self.parent_fingerprint, digest)
                 \o child_number.val \o self.chain_code \o encoded_key.val)

\* base58check_encode(payload) of the outcome payload
ExtendedKey_to_wif_of(payload, sha) ==
    IF ~Returned(payload) THEN payload
    ELSE Ok(base58check_encode(payload.val, sha))

ExtendedKey_to_wif(self, digest, sha) ==
    ExtendedKey_to_wif_of(ExtendedKey_payload(self, digest), sha)

-----------------------------------------------------------------------------
(* The derivation-chain specification: a root extended private key is      *)
(* constructed with depth 0, and then derive_private_child,                *)
(* generate_public_key and derive_public_child are called on the key that  *)
(* the last call returned, any number of times; to_wif is called on a key  *)
(* of the chain.  ch holds that key, the number of child derivations that  *)
(* led to it, and the payload and outcome of to_wif.                       *)

MaxSteps == 256

\* the left half of the HMAC output for a parent of the given depth: 1 or
\* n - 1, which takes the chain from k = 1 to k = 2 and back, and n, for
\* which the child is skipped
ChainOutL(depth) == { IF depth % 2 = 0 THEN 1 ELSE curve_n - 1, curve_n }

ChainDigest == <<222, 173, 190, 239>> \o Repeat(9, 16)

ChainSha == [of |-> << >>, digest |-> <<1, 2, 3, 4>>, other |-> <<1, 2, 3, 4>>]

InitChain ==
    /\ ecc = EccOff
    /\ b58 = B58Off
    /\ pk = KeyOff
    /\ xk = XKeyOff
    /\ wl = WalletOff
    /\ tx = TxOff
    /\ ts = TsOff
    /\ hp = HeapOff
    /\ cm = CommuteOff
    /\ ch = [pc |-> "start", key |-> NoValue, steps |-> 0, payload |-> NoCall,
             wif |-> NoCall]

\* ExtendedPrivateKey(key=PrivateKey(k=1, compressed=True), chain_code=...)
ChainRoot ==
    /\ ch.pc = "start"
    /\ UNCHANGED <<ecc, b58, pk, xk, wl, tx, ts, hp, cm>>
    /\ LET root == ExtendedPrivateKey_call(
                       [key |-> PrivateKey(1, FALSE, TRUE),
                        chain_code |-> ParentChainCode])
       IN ch' = [ch EXCEPT !.pc = "key", !.key = root.val]

\* the key the chain continues with: the child if the call returned one
Chain_next(child) ==
    IF Returned(child)
    THEN [ch EXCEPT !.key = child.val, !.steps = ch.steps + 1]
    ELSE ch

\* key = key.derive_private_child(0)
ChainDerivePrivate ==
    /\ ch.pc = "key"
    /\ ch.key.cls = "ExtendedPrivateKey"
    /\ ch.steps < MaxSteps
    /\ UNCHANGED <<ecc, b58, pk, xk, wl, tx, ts, hp, cm>>
    /\ \E out_l \in ChainOutL(ch.key.depth) :
          ch' = Chain_next(derive_private_child(ch.key, << >>, out_l,
                                                Repeat(1, 32)))

\* key = key.generate_public_key()
ChainGeneratePublicKey ==
    /\ ch.pc = "key"
    /\ ch.key.cls = "ExtendedPrivateKey"
    /\ UNCHANGED <<ecc, b58, pk, xk, wl, tx, ts, hp, cm>>
    /\ ch' = [ch EXCEPT !.key = ExtendedPrivateKey_generate_public_key(ch.key).val]

\* key = key.derive_public_child(0)
ChainDerivePublic ==
    /\ ch.pc = "key"
    /\ ch.key.cls = "ExtendedPublicKey"
    /\ ch.steps < MaxSteps
    /\ UNCHANGED <<ecc, b58, pk, xk, wl, tx, ts, hp, cm>>
    /\ \E out_l \in ChainOutL(ch.key.depth) :
          ch' = Chain_next(derive_public_child(ch.key, << >>, out_l,
                                               Repeat(1, 32)))

\* key.to_wif()
ChainToWif ==
    /\ ch.pc = "key"
    /\ UNCHANGED <<ecc, b58, pk, xk, wl, tx, ts, hp, cm>>
    /\ LET payload == ExtendedKey_payload(ch.key, ChainDigest)
       IN ch' = [ch EXCEPT !.pc = "wif", !.payload = payload,
                           !.wif = ExtendedKey_to_wif_of(payload, ChainSha)]

NextChain ==
    \/ ChainRoot
    \/ ChainDerivePrivate
    \/ ChainGeneratePublicKey
    \/ ChainDerivePublic
    \/ ChainToWif

SpecChain == InitChain /\ [][NextChain]_vars

\* C19: every key of a derivation chain that starts at a root of depth 0
\* has as depth the number of child derivations that led to it, which is
\* within 0..255, and to_wif returns for it, from a payload of 78 bytes
\* whose fifth byte is the depth.
C19_DepthInByte ==
    ch.pc \in {"key", "wif"} =>
        /\ ch.key.depth = ch.steps
        /\ ch.key.depth \in 0..255
        /\ ch.pc = "wif" =>
              /\ Returned(ch.wif)
              /\ Len(ch.payload.val) = 78
              /\ ch.payload.val[5] = ch.key.depth

-----------------------------------------------------------------------------
(* Objects.  A Point and an extended key are objects with fields; an       *)
(* operation reads the fields of its operands, and returns one of its      *)
(* operands or an object it constructs.  hp.heap holds the fields of the   *)
(* objects in the order of their construction, hp.made the fields each     *)
(* object was constructed with, and hp.ret the outcome of the last call:   *)
(* the position of the object returned, or the exception.                  *)

\* an operation returns the object at ref, constructing nothing
Heap_return(h, ref) == [h EXCEPT !.ret = Ok(ref)]

\* an operation raises, or constructs the object it returns: Point(...),
\* ExtendedPrivateKey(...), ExtendedPublicKey(...) assign the fields of the
\* new object and of no other
Heap_store(h, outcome) ==
    IF Returned(outcome)
    THEN [h EXCEPT !.heap = Append(@, outcome.val),
                   !.made = Append(@, outcome.val),
                   !.ret = Ok(Len(h.heap) + 1)]
    ELSE [h EXCEPT !.ret = outcome]

\* self + other with the sum assigned to the fields of self
Heap_add_in_place(h, self, other) ==
    LET sum == Point_add(h.heap[self], h.heap[other])
    IN  IF Returned(sum)
        THEN [h EXCEPT !.heap = [@ EXCEPT ![self] = sum.val], !.ret = Ok(self)]
        ELSE [h EXCEPT !.ret = sum]

\* self + other: Point.__add__ returns other, self, or a new Point
Heap_add(h, self, other) ==
    IF h.heap[self].x = 0 /\ h.heap[self].y = 0 THEN Heap_return(h, other)
    ELSE IF h.heap[other].x = 0 /\ h.heap[other].y = 0 THEN Heap_return(h, self)
    ELSE Heap_store(h, Point_add(h.heap[self], h.heap[other]))

\* -self
Heap_neg(h, self) == Heap_store(h, Point_neg(h.heap[self]))

\* self * other: Point.__mul__ returns self for other = 1; else it works on
\* copy(self) and Point.inf(), rebinding q and n (Point has no __iadd__)
Heap_mul(h, self, other) ==
    IF other = 1 THEN Heap_return(h, self)
    ELSE Heap_store(h, Point_mul(h.heap[self], other))

Heap_derive_private_child(h, self, index, out_l, out_r) ==
    Heap_store(h, derive_private_child(h.heap[self], index, out_l, out_r))

Heap_generate_public_key(h, self) ==
    Heap_store(h, ExtendedPrivateKey_generate_public_key(h.heap[self]))

Heap_derive_public_child(h, self, index, out_l, out_r) ==
    Heap_store(h, derive_public_child(h.heap[self], index, out_l, out_r))

-----------------------------------------------------------------------------
(* The object specification: Points and extended private keys are          *)
(* constructed, and the operations are called on the objects there are.    *)

MaxObjects == 3

\* the arguments of the Point constructor: the identity, G, -G and 2 * G
HeapPoints ==
    { Point_inf, Point_gen, Point_neg(Point_gen).val, Point_mul(Point_gen, 2).val }

HeapKeys == { PrivateKey(k, FALSE, TRUE) : k \in {1, 5, curve_n - 1} }

HeapIndexes == { << >>, <<128, 0, 0, 0>>, <<1, 0, 0, 0, 0>> }

\* the left half of the HMAC output for a parent key k: 0, 1, n - k (the
\* child key is 0) and n
HeapOutL(k) == { 0, 1, curve_n - k, curve_n }

IsPointObject(o) == "x" \in DOMAIN o

IsKeyObject(o, cls) == "cls" \in DOMAIN o /\ o.cls = cls

InitHeap ==
    /\ ecc = EccOff
    /\ b58 = B58Off
    /\ pk = KeyOff
    /\ xk = XKeyOff
    /\ wl = WalletOff
    /\ tx = TxOff
    /\ ts = TsOff
    /\ ch = ChainOff
    /\ cm = CommuteOff
    /\ hp = [heap |-> << >>, made |-> << >>, ret |-> NoCall]

HeapRoom ==
    /\ Len(hp.heap) < MaxObjects
    /\ UNCHANGED <<ecc, b58, pk, xk, wl, tx, ts, ch, cm>>

\* Point(x, y)
HeapNewPoint ==
    /\ HeapRoom
    /\ Len(hp.heap) < 2
    /\ \E p \in HeapPoints : hp' = Heap_store(hp, Point_init(p.x, p.y))

\* ExtendedPrivateKey(key=PrivateKey(k), chain_code=...)
HeapNewKey ==
    /\ HeapRoom
    /\ Len(hp.heap) < 1
    /\ \E key \in HeapKeys :
          hp' = Heap_store(hp, ExtendedPrivateKey_call(
                                   [key |-> key, chain_code |-> ParentChainCode]))

\* a + b
HeapAdd ==
    /\ HeapRoom
    /\ \E self, other \in 1..Len(hp.heap) :
          /\ IsPointObject(hp.heap[self]) /\ IsPointObject(hp.heap[other])
          /\ hp' = Heap_add(hp, self, other)

\* -a
HeapNeg ==
    /\ HeapRoom
    /\ \E self \in 1..Len(hp.heap) :
          /\ IsPointObject(hp.heap[self])
          /\ hp' = Heap_neg(hp, self)

\* a * k
HeapMul ==
    /\ HeapRoom
    /\ \E self \in 1..Len(hp.heap), other \in {-1, 0, 1, 2, 3} :
          /\ IsPointObject(hp.heap[self])
          /\ hp' = Heap_mul(hp, self, other)

\* parent.derive_private_child(index)
HeapDerivePrivate ==
    /\ HeapRoom
    /\ \E self \in 1..Len(hp.heap) :
          /\ IsKeyObject(hp.heap[self], "ExtendedPrivateKey")
          /\ \E index \in HeapIndexes, out_l \in HeapOutL(hp.heap[self].key.k) :
                hp' = Heap_derive_private_child(hp, self, index, out_l,
                                                Repeat(1, 32))

\* parent.generate_public_key()
HeapGeneratePublicKey ==
    /\ HeapRoom
    /\ \E self \in 1..Len(hp.heap) :
          /\ IsKeyObject(hp.heap[self], "ExtendedPrivateKey")
          /\ hp' = Heap_generate_public_key(hp, self)

\* parent.derive_public_child(index)
HeapDerivePublic ==
    /\ HeapRoom
    /\ \E self \in 1..Len(hp.heap) :
          /\ IsKeyObject(hp.heap[self], "ExtendedPublicKey")
          /\ \E index \in HeapIndexes, out_l \in {0, 1, 5, curve_n - 1, curve_n} :
                hp' = Heap_derive_public_child(hp, self, index, out_l,
                                               Repeat(1, 32))

NextHeap ==
    \/ HeapNewPoint
    \/ HeapNewKey
    \/ HeapAdd
    \/ HeapNeg
    \/ HeapMul
    \/ HeapDerivePrivate
    \/ HeapGeneratePublicKey
    \/ HeapDerivePublic

SpecHeap == InitHeap /\ [][NextHeap]_vars

\* C20: after any sequence of point additions, negations and
\* multiplications and of derive_private_child, derive_public_child and
\* generate_public_key calls, those that raise included, every Point has
\* the (x, y) and every key the key, chain_code, depth, parent_fingerprint
\* and index it was constructed with.
C20_OperandsUnchanged ==
    /\ Len(hp.heap) = Len(hp.made)
    /\ \A i \in 1..Len(hp.made) : hp.heap[i] = hp.made[i]

\* an extended private key and the child derived from it exist, and the
\* last call on them raised
C20_Witness ==
    /\ Len(hp.heap) = 2
    /\ IsKeyObject(hp.heap[1], "ExtendedPrivateKey")
    /\ IsKeyObject(hp.heap[2], "ExtendedPrivateKey")
    /\ hp.heap[2].depth = 1
    /\ hp.heap[1] = hp.made[1]
    /\ hp.ret.exc \notin {"none", "no call"}

-----------------------------------------------------------------------------
(* The two ways from an extended private key to the extended public key of *)
(* its child number index: parent.derive_private_child(index)              *)
(* .generate_public_key() and parent.generate_public_key()                 *)
(* .derive_public_child(index).  hmac_sha512 is a function of its key and  *)
(* message: where the two derivations pass the same chain code and the     *)
(* same message, they get the same output (out_l, out_r).  cm holds the    *)
(* parent, the index, the HMAC output and message of each derivation, and  *)
(* the outcome of each chain of calls.                                     *)

\* parent.derive_private_child(index).generate_public_key()
derive_then_generate(parent, index, out_l, out_r) ==
    LET child == derive_private_child(parent, index, out_l, out_r)
    IN IF ~Returned(child) THEN child
       ELSE ExtendedPrivateKey_generate_public_key(child.val)

\* parent.generate_public_key().derive_public_child(index)
generate_then_derive(parent, index, out_l, out_r) ==
    LET public == ExtendedPrivateKey_generate_public_key(parent)
    IN IF ~Returned(public) THEN public
       ELSE derive_public_child(public.val, index, out_l, out_r)

\* the message generate_public_key().derive_public_child(index) passes to
\* hmac_sha512
generate_then_derive_msg(parent, index) ==
    LET public == ExtendedPrivateKey_generate_public_key(parent)
    IN IF ~Returned(public) THEN public
       ELSE derive_public_child_data(public.val, index)

\* both derivations reached hmac_sha512, with the same message
SameMessage(a, b) ==
    IF Returned(a) /\ Returned(b) THEN a.val = b.val ELSE FALSE

\* private keys 1, 2, 5, (n - 1) / 2, (n + 1) / 2 and n - 1
CommuteKeys ==
    { PrivateKey(k, testnet, compressed) :
          k \in {1, 2, 5, (curve_n - 1) \div 2, (curve_n + 1) \div 2, curve_n - 1},
          testnet \in BOOLEAN, compressed \in {FALSE} }

InitCommute ==
    /\ ecc = EccOff
    /\ b58 = B58Off
    /\ pk = KeyOff
    /\ xk = XKeyOff
    /\ wl = WalletOff
    /\ tx = TxOff
    /\ ts = TsOff
    /\ ch = ChainOff
    /\ hp = HeapOff
    /\ cm = [pc |-> "start", parent |-> NoCall, index |-> << >>,
             out_l |-> 0, out_r |-> << >>, data |-> NoCall,
             private |-> NoCall, out_l2 |-> 0, out_r2 |-> << >>,
             data2 |-> NoCall, public |-> NoCall]

\* ExtendedPrivateKey(key, chain_code, depth, parent_fingerprint, index)
CommuteParent ==
    /\ cm.pc = "start"
    /\ UNCHANGED <<ecc, b58, pk, xk, wl, tx, ts, ch, hp>>
    /\ \E key \in CommuteKeys, depth \in 0..MaxDepth :
          cm' = [cm EXCEPT
                    !.pc = "parent",
                    !.parent = ExtendedPrivateKey_init(
                                   key, ParentChainCode, depth,
                                   IF depth = 0 THEN ConstBytes(<<0, 0, 0, 0>>)
                                   ELSE ConstBytes(<<222, 173, 190, 239>>),
                                   IF depth = 0 THEN << >> ELSE <<7>>)]

\* parent.derive_private_child(index).generate_public_key()
CommutePrivateFirst ==
    /\ cm.pc = "parent"
    /\ Returned(cm.parent)
    /\ UNCHANGED <<ecc, b58, pk, xk, wl, tx, ts, ch, hp>>
    /\ \E index \in Indexes, out_l \in 0..OutLMax, out_r \in ChainCodes :
          cm' = [cm EXCEPT
                    !.pc = "private", !.index = index,
                    !.out_l = out_l, !.out_r = out_r,
                    !.data = derive_private_child_msg(cm.parent.val, index),
                    !.private = derive_then_generate(cm.parent.val, index,
                                                     out_l, out_r)]

\* parent.generate_public_key().derive_public_child(index), for the same
\* parent and index
CommutePublicFirst ==
    /\ cm.pc = "private"
    /\ UNCHANGED <<ecc, b58, pk, xk, wl, tx, ts, ch, hp>>
    /\ LET data2 == generate_then_derive_msg(cm.parent.val, cm.index)
       IN \E out_l2 \in {cm.out_l, 1}, out_r2 \in {cm.out_r, Repeat(2, 32)} :
             /\ SameMessage(cm.data, data2) =>
                    (out_l2 = cm.out_l /\ out_r2 = cm.out_r)
             /\ cm' = [cm EXCEPT
                          !.pc = "both", !.out_l2 = out_l2, !.out_r2 = out_r2,
                          !.data2 = data2,
                          !.public = generate_then_derive(cm.parent.val, cm.index,
                                                          out_l2, out_r2)]

NextCommute == CommuteParent \/ CommutePrivateFirst \/ CommutePublicFirst

SpecCommute == InitCommute /\ [][NextCommute]_vars

\* the two outcomes are extended public keys equal in point, chain_code,
\* depth, parent_fingerprint and index
SameChild(a, b) ==
    /\ Returned(a) /\ Returned(b)
    /\ a.val.key.point = b.val.key.point
    /\ a.val.chain_code = b.val.chain_code
    /\ a.val.depth = b.val.depth
    /\ a.val.parent_fingerprint = b.val.parent_fingerprint
    /\ a.val.index = b.val.index

\* C21: for every extended private key parent and every index i < 2^31,
\* parent.generate_public_key().derive_public_child(i) and
\* parent.derive_private_child(i).generate_public_key() either both return
\* extended public keys equal in point, chain_code, depth,
\* parent_fingerprint and index, or both raise UseNextIndex; so too when
\* int(I_L) is 0 and when the child key is 0.
C21_DerivationsCommute ==
    (cm.pc = "both" /\ IndexInRange(cm.index) /\ ~Hardened(cm.index)) =>
        \/ SameChild(cm.private, cm.public)
        \/ cm.private.exc = "UseNextIndex" /\ cm.public.exc = "UseNextIndex"

====
